---------------------------- MODULE Spec2Model ----------------------------
(***************************************************************************)
(* A model of the NLSD / NLOQ repository.                                  *)
(*                                                                         *)
(* Text is modelled at token granularity: a sentence is a sequence of      *)
(* tokens, a token is either a whitespace-free word or a delimited string  *)
(* literal, and the text of a token is a sequence of one-character         *)
(* strings.  A cursor is the number of tokens already consumed.            *)
(***************************************************************************)
EXTENDS Integers, Sequences, FiniteSets, TLC

VARIABLES
    \* nloq::Deserializer (src/nloq/src/de.rs)
    nloq_src, nloq_first, nloq_index,
    \* the caller of the NLOQ iterator: the steps the phrase was written from,
    \* the items next() returned so far, the result of query(), and where it is
    nloq_steps, nloq_seen, nloq_query, nloq_pc,
    \* whether the build checks integer overflow (a debug build) or wraps
    overflow_checks,
    \* a document, the last call made on it, what the call returned, and the
    \* document as it was before the call
    acc_lib, acc_doc, acc_call, acc_ret, acc_before, acc_pc,
    \* nlsd::Deserializer (src/src/de.rs), the literal its sentence was
    \* written from, the last call made on it and what the call returned, and
    \* the calls that have not returned yet, the innermost last
    de_src, de_index, de_lit, de_call, de_ret, de_pc, de_stack,
    \* a value, what to_string returned for it, what from_str returned for the
    \* written sentence, and how far the round trip has come
    ser_value, ser_ret, from_ret, codec_pc

nloq_vars == <<nloq_src, nloq_first, nloq_index, nloq_steps, nloq_seen, nloq_query, nloq_pc>>

acc_vars == <<overflow_checks, acc_lib, acc_doc, acc_call, acc_ret, acc_before, acc_pc>>

de_vars == <<de_src, de_index, de_lit, de_call, de_ret, de_pc, de_stack>>

codec_vars == <<ser_value, ser_ret, from_ret, codec_pc>>

vars == <<nloq_vars, acc_vars, de_vars, codec_vars>>

-----------------------------------------------------------------------------
(* Bounds of the model *)

\* longest NLOQ chain "step of step of ..." that is enumerated
MaxSteps == 3
\* largest ordinal value that is enumerated
MaxOrd == 13
\* longest array of an enumerated document
MaxLen == 3
\* longest enumerated text of characters
MaxTextLen == 4
\* longest enumerated identifier
MaxNameLen == 4
\* largest whole part of a number that is hashed
MaxHashed == 4
\* most calls of the decoder that wait for one another
MaxDepth == 6
\* largest index of an enumerated query part
MaxIdx == 4
\* longest enumerated query
MaxPath == 2
\* largest whole part of an enumerated numeric literal, the width limits aside
MaxWhole == 130

\* the lists and integers of a nested list of integers
MaxListNodes == 7

\* the longest text of a map key
MaxKeyLen == 3

\* the width of isize and usize in the model, standing for 64
IsizeBits == 8

-----------------------------------------------------------------------------
(* Characters and tokens *)

Digits == <<"0", "1", "2", "3", "4", "5", "6", "7", "8", "9">>

IsDigit(ch) == \E i \in 1..10 : Digits[i] = ch

DigitVal(ch) == (CHOOSE i \in 1..10 : Digits[i] = ch) - 1

\* the characters that cannot be written inside a string of this notation
BackTick == "BACKTICK"
BackSlash == "BACKSLASH"

\* a whitespace-free word
Tok(text) == [k |-> "t", c |-> text]

\* a delimited string literal: its delimiter and the text between the delimiters
Str(d, text) == [k |-> "s", d |-> d, c |-> text]

THE == <<"t", "h", "e">>
OF == <<"o", "f">>
TO == <<"t", "o">>
LAST == <<"l", "a", "s", "t">>
ITEM == <<"i", "t", "e", "m">>

RECURSIVE AllDigits(_)
AllDigits(s) == s = <<>> \/ (IsDigit(Head(s)) /\ AllDigits(Tail(s)))

\* str::parse::<usize>() of a digit run (most significant digit first)
RECURSIVE ParseUnsigned(_)
ParseUnsigned(s) ==
    IF s = <<>> THEN 0
    ELSE ParseUnsigned(SubSeq(s, 1, Len(s) - 1)) * 10 + DigitVal(s[Len(s)])

\* the decimal digits of a natural number
RECURSIVE ToDigits(_)
ToDigits(n) == IF n < 10 THEN <<Digits[n + 1]>> ELSE ToDigits(n \div 10) \o <<Digits[(n % 10) + 1]>>

\* str::parse::<i64>(): an optional sign and a non-empty digit run
IsIntegerText(s) ==
    LET body == IF s # <<>> /\ Head(s) \in {"-", "+"} THEN Tail(s) ELSE s
    IN  body # <<>> /\ AllDigits(body)

\* str::parse::<f64>() that is not an integer: digits, a point, digits
IsFloatText(s) ==
    LET body == IF s # <<>> /\ Head(s) \in {"-", "+"} THEN Tail(s) ELSE s
    IN  \E p \in 1..Len(body) :
            /\ body[p] = "."
            /\ AllDigits(SubSeq(body, 1, p - 1))
            /\ AllDigits(SubSeq(body, p + 1, Len(body)))
            /\ Len(body) > 1

IsNumberText(s) == IsIntegerText(s) \/ IsFloatText(s)

\* parser::parse_next on the token under the cursor: a string literal, else a
\* number, else a plain token
Parsed(tok) ==
    IF tok.k = "s" THEN [p |-> "Str", c |-> tok.c]
    ELSE IF IsNumberText(tok.c) THEN [p |-> "Number", c |-> tok.c]
    ELSE [p |-> "Token", c |-> tok.c]

PToken(text) == [p |-> "Token", c |-> text]

-----------------------------------------------------------------------------
(* object_query::Query *)

QKey(key) == [q |-> "Key", key |-> key]

QIndex(index, from_last) == [q |-> "Index", index |-> index, from_last |-> from_last]

\* Option::None of an iterator item
NoItem == [q |-> "None"]

-----------------------------------------------------------------------------
(* NLOQ deserializer *)

OrdinalWords == <<
    <<"f", "i", "r", "s", "t">>,
    <<"s", "e", "c", "o", "n", "d">>,
    <<"t", "h", "i", "r", "d">>,
    <<"f", "o", "u", "r", "t", "h">>,
    <<"f", "i", "f", "t", "h">>,
    <<"s", "i", "x", "t", "h">>,
    <<"s", "e", "v", "e", "n", "t", "h">>,
    <<"e", "i", "g", "h", "t", "h">>,
    <<"n", "i", "n", "t", "h">>,
    <<"t", "e", "n", "t", "h">>,
    <<"e", "l", "e", "v", "e", "n", "t", "h">>,
    <<"t", "w", "e", "l", "f", "t", "h">> >>

OrdinalSuffixes == {<<"t", "h">>, <<"s", "t">>, <<"r", "d">>, <<"n", "d">>}

EndsWith(s, suffix) ==
    Len(s) >= Len(suffix) /\ SubSeq(s, Len(s) - Len(suffix) + 1, Len(s)) = suffix

\* parse_index accepting the suffix th alone
parse_index_digits_th_only(string) ==
    IF EndsWith(string, <<"t", "h">>)
    THEN LET run == SubSeq(string, 1, Len(string) - 2)
         IN  IF run # <<>> /\ AllDigits(run) THEN ParseUnsigned(run) ELSE 0
    ELSE 0

\* parse_index: 0 stands for None, n >= 1 for Some(n)
parse_index_digits(string) ==
    IF \E suf \in OrdinalSuffixes : EndsWith(string, suf)
    THEN LET run == SubSeq(string, 1, Len(string) - 2)
         IN  IF run # <<>> /\ AllDigits(run) THEN ParseUnsigned(run) ELSE 0
    ELSE 0

parse_index_word(string) ==
    IF \E n \in 1..Len(OrdinalWords) : OrdinalWords[n] = string
    THEN CHOOSE n \in 1..Len(OrdinalWords) : OrdinalWords[n] = string
    ELSE 0

\* parse_index that takes a leading 0 for the start of a digit run
parse_index_leading_zero(string) ==
    IF string = <<>> THEN 0
    ELSE IF IsDigit(Head(string)) THEN parse_index_digits(string)
         ELSE parse_index_word(string)

parse_index(string) ==
    IF string = <<>> THEN 0
    ELSE IF Head(string) \in {"1", "2", "3", "4", "5", "6", "7", "8", "9"}
         THEN parse_index_digits(string)
         ELSE parse_index_word(string)

\* Deserializer::parse_next: the cursor moves only when a token was read
NloqParseNext(src, index) ==
    IF index < Len(src)
    THEN [some |-> TRUE, parsed |-> Parsed(src[index + 1]), index |-> index + 1]
    ELSE [some |-> FALSE, parsed |-> PToken(<<>>), index |-> index]

IsTok(r, text) == r.some /\ r.parsed = PToken(text)

\* rollback that leaves the cursor where it is
rollback_nowhere(self_index, index) == self_index

\* Deserializer::rollback: the cursor afterwards
rollback(self_index, index) == index

\* the three arms that fall back to a key: a token or a string literal is a
\* key and the cursor goes back to just after it, a number ends the iteration
NloqKeyFallback(identifier, indentifier_index, start_index, first, first_on_number) ==
    IF identifier.p = "Number"
    THEN [item |-> NoItem, first |-> first_on_number,
          index |-> rollback(indentifier_index, start_index)]
    ELSE [item |-> QKey(identifier.c), first |-> FALSE, index |-> indentifier_index]

\* Iterator::next for Deserializer: the item and the fields after the call
NloqNext(src, first, index) ==
    LET start_index == index
        None_(at) == [item |-> NoItem, first |-> first, index |-> rollback(at, start_index)]
        r_of == NloqParseNext(src, start_index)
        after_of == IF first THEN start_index ELSE r_of.index
        r_the == NloqParseNext(src, after_of)
        r_id == NloqParseNext(src, r_the.index)
        identifier == r_id.parsed
        indentifier_index == r_id.index
        r3 == NloqParseNext(src, indentifier_index)
        r4 == NloqParseNext(src, r3.index)
        r5 == NloqParseNext(src, r4.index)
    IN  IF ~first /\ ~IsTok(r_of, OF) THEN None_(r_of.index)
        ELSE IF ~IsTok(r_the, THE) THEN None_(r_the.index)
        ELSE IF ~r_id.some THEN None_(r_id.index)
        ELSE IF IsTok(r3, TO) THEN
            IF IsTok(r4, LAST) /\ IsTok(r5, ITEM) THEN
                IF identifier.p = "Token" /\ parse_index(identifier.c) # 0
                THEN [item |-> QIndex(parse_index(identifier.c) - 1, TRUE),
                      first |-> FALSE, index |-> r5.index]
                ELSE NloqKeyFallback(identifier, indentifier_index, start_index, first, first)
            ELSE NloqKeyFallback(identifier, indentifier_index, start_index, first, first)
        ELSE IF IsTok(r3, ITEM) THEN
            IF identifier = PToken(LAST)
            THEN [item |-> QIndex(0, TRUE), first |-> FALSE, index |-> r3.index]
            ELSE IF identifier.p = "Token" /\ parse_index(identifier.c) # 0
            THEN [item |-> QIndex(parse_index(identifier.c) - 1, FALSE),
                  first |-> FALSE, index |-> r3.index]
            ELSE NloqKeyFallback(identifier, indentifier_index, start_index, first, first)
        ELSE NloqKeyFallback(identifier, indentifier_index, start_index, first, FALSE)

\* query() pushing each item to the back
RECURSIVE NloqQueryLoop_push_back(_, _, _, _)
NloqQueryLoop_push_back(src, first, index, out) ==
    LET r == NloqNext(src, first, index)
    IN  IF r.item = NoItem
        THEN [out |-> out, first |-> r.first, index |-> r.index]
        ELSE NloqQueryLoop_push_back(src, r.first, r.index, out \o <<r.item>>)

\* Deserializer::query: next() until it returns None, each item pushed to the front
RECURSIVE NloqQueryLoop(_, _, _, _)
NloqQueryLoop(src, first, index, out) ==
    LET r == NloqNext(src, first, index)
    IN  IF r.item = NoItem
        THEN [out |-> out, first |-> r.first, index |-> r.index]
        ELSE NloqQueryLoop(src, r.first, r.index, <<r.item>> \o out)

\* Deserializer::rest
NloqRest(src, index) == SubSeq(src, index + 1, Len(src))

-----------------------------------------------------------------------------
(* Values: nlsd_value::Value and serde_json::Value *)

NInt(i) == [n |-> "Integer", v |-> i]

\* a float that a short decimal literal denotes: sign bit, and m / 10^e with
\* no trailing zero in the fraction
NFloat(neg, m, e) == [n |-> "Float", neg |-> neg, m |-> m, e |-> e]

VNull == [t |-> "Null"]
VBool(b) == [t |-> "Bool", b |-> b]
VNumber(num) == [t |-> "Number", n |-> num]
VString(text) == [t |-> "String", s |-> text]
VArray(items) == [t |-> "Array", a |-> items]
\* a map is the sequence of its entries in key order
VObject(entries) == [t |-> "Object", o |-> entries]
VAmount(entries) == [t |-> "Amount", m |-> entries]
VCustom(inner) == [t |-> "Custom", c |-> inner]

Entry(key, val) == [key |-> key, val |-> val]

KBool(b) == [k |-> "Bool", b |-> b]
KNumber(num) == [k |-> "Number", n |-> num]
KString(text) == [k |-> "String", s |-> text]

Some(v) == [some |-> TRUE, v |-> v]
None == [some |-> FALSE]

\* characters in byte order
Alphabet == <<" ", "-", ".", "0", "1", "2", "3", "4", "5", "6", "7", "8", "9",
              "A", "B", "C", "U", BackSlash, "_", BackTick,
              "a", "b", "c", "d", "e", "f", "g", "h", "i", "j", "k", "l", "m",
              "n", "o", "p", "q", "r", "s", "t", "u", "v", "w", "x", "y", "z">>

CharRank(ch) == CHOOSE i \in 1..Len(Alphabet) : Alphabet[i] = ch

\* str::cmp
RECURSIVE StrLess(_, _)
StrLess(a, b) ==
    IF b = <<>> THEN FALSE
    ELSE IF a = <<>> THEN TRUE
    ELSE IF Head(a) = Head(b) THEN StrLess(Tail(a), Tail(b))
    ELSE CharRank(Head(a)) < CharRank(Head(b))

\* BTreeMap::get
MapGet(map, key) ==
    IF \E i \in 1..Len(map) : map[i].key = key
    THEN Some(map[CHOOSE i \in 1..Len(map) : map[i].key = key].val)
    ELSE None

\* BTreeMap<String, _>::insert: the map afterwards
MapInsert(map, key, val) ==
    IF \E i \in 1..Len(map) : map[i].key = key
    THEN [i \in 1..Len(map) |-> IF map[i].key = key THEN Entry(key, val) ELSE map[i]]
    ELSE LET below == Cardinality({i \in 1..Len(map) : StrLess(map[i].key, key)})
         IN  SubSeq(map, 1, below) \o <<Entry(key, val)>> \o SubSeq(map, below + 1, Len(map))

\* slice::get; a negative index stands for one that wrapped around 2^64
Get(array, index) ==
    IF index >= 0 /\ index < Len(array) THEN Some(array[index + 1]) ELSE None

\* Vec::push
Push(array, val) == Append(array, val)

\* Vec::remove in place of swap_remove: the later elements shift down
SwapRemove_shifting(array, index) ==
    [removed |-> array[index + 1],
     array |-> SubSeq(array, 1, index) \o SubSeq(array, index + 2, Len(array))]

\* Vec::swap_remove: the element at index is replaced by the last one
SwapRemove(array, index) ==
    LET last == array[Len(array)]
        moved == [i \in 1..Len(array) |-> IF i = index + 1 THEN last ELSE array[i]]
    IN  [removed |-> array[index + 1], array |-> SubSeq(moved, 1, Len(array) - 1)]

\* Vec::resize
Resize(array, new_len, fill) ==
    [i \in 1..new_len |-> IF i <= Len(array) THEN array[i] ELSE fill]

\* usize subtraction: whether it overflows, and the value a wrapping build
\* computes (a negative number stands for that number plus 2^64)
UsizeSub(a, b) == [overflow |-> a >= 0 /\ a < b, v |-> a - b]

-----------------------------------------------------------------------------
(* object_query: access and query_set *)

NotSet == [r |-> "NotSet"]
Set == [r |-> "Set"]
Replaced(old) == [r |-> "Replaced", old |-> old]

Returned(option) == [panic |-> FALSE, ret |-> option]
Panicked == [panic |-> TRUE, ret |-> None]

\* the units an Amount of the documents is keyed by
UnitNames == {<<"d", "o", "l", "l", "a", "r", "s">>, <<"e", "u", "r", "o", "s">>}

\* the least isize
IsizeMin == 0 - 2^(IsizeBits - 1)

IsizeMax == 2^(IsizeBits - 1) - 1

\* isize::abs: the absolute value of the least isize does not fit
IsizeAbs(n) == [overflow |-> n = IsizeMin, v |-> IF n < 0 /\ n # IsizeMin THEN 0 - n ELSE n]

\* isize as usize
AsUsize(n) == IF n < 0 THEN n + 2^IsizeBits ELSE n

\* From<isize> for Query that takes every integer for a forward index
query_from_forward(index) == Returned(QIndex(AsUsize(index), FALSE))

\* From<isize> for Query
query_from(index) ==
    IF index < 0
    THEN IF overflow_checks /\ IsizeAbs(index).overflow THEN Panicked
         ELSE Returned(QIndex(AsUsize(IsizeAbs(index).v) - 1, TRUE))
    ELSE Returned(QIndex(AsUsize(index), FALSE))

\* AccessNext for nlsd_value::Value
value_access_next(self, query) ==
    IF self.t = "Amount" THEN
        IF query.q = "Index" THEN Returned(None)
        ELSE IF query.key \in UnitNames THEN Returned(MapGet(self.m, query.key))
        ELSE Returned(None)
    ELSE IF self.t = "Array" THEN
        IF query.q = "Index" THEN
            IF query.from_last
            THEN LET len_1 == UsizeSub(Len(self.a), 1)
                     at == UsizeSub(len_1.v, query.index)
                 IN  IF overflow_checks /\ (len_1.overflow \/ at.overflow)
                     THEN Panicked
                     ELSE Returned(Get(self.a, at.v))
            ELSE Returned(Get(self.a, query.index))
        ELSE Returned(None)
    ELSE IF self.t = "Object" THEN
        IF query.q = "Index" THEN
            IF query.from_last THEN Returned(None)
            ELSE Returned(MapGet(self.o, KNumber(NInt(query.index))))
        ELSE Returned(MapGet(self.o, KString(query.key)))
    ELSE Returned(None)

\* AccessNextMut for nlsd_value::Value
value_access_next_mut(self, query) ==
    IF self.t = "Amount" THEN
        IF query.q = "Index" THEN Returned(None)
        ELSE IF query.key \in UnitNames THEN Returned(MapGet(self.m, query.key))
        ELSE Returned(None)
    ELSE IF self.t = "Array" THEN
        IF query.q = "Index" THEN
            IF query.from_last
            THEN LET len_1 == UsizeSub(Len(self.a), 1)
                     index == UsizeSub(len_1.v, query.index)
                 IN  IF overflow_checks /\ (len_1.overflow \/ index.overflow)
                     THEN Panicked
                     ELSE Returned(Get(self.a, index.v))
            ELSE Returned(Get(self.a, query.index))
        ELSE Returned(None)
    ELSE IF self.t = "Object" THEN
        IF query.q = "Index" THEN
            IF query.from_last THEN Returned(None)
            ELSE Returned(MapGet(self.o, KNumber(NInt(query.index))))
        ELSE Returned(MapGet(self.o, KString(query.key)))
    ELSE Returned(None)

\* access_next counting from the end without the - 1
json_access_next_off_by_one(self, query) ==
    IF self.t = "Array" /\ query.q = "Index" /\ query.from_last
    THEN Get(self.a, Len(self.a) - query.index)
    ELSE None

\* AccessNext for serde_json::Value
json_access_next(self, query) ==
    IF self.t = "Array" THEN
        IF query.q = "Index" THEN
            IF query.from_last
            THEN IF query.index >= Len(self.a) THEN None
                 ELSE Get(self.a, Len(self.a) - 1 - query.index)
            ELSE Get(self.a, query.index)
        ELSE None
    ELSE IF self.t = "Object" THEN
        IF query.q = "Index" THEN None ELSE MapGet(self.o, query.key)
    ELSE None

\* AccessNextMut for serde_json::Value: the element and the place it is borrowed from
json_access_next_mut(self, query) ==
    IF self.t = "Array" THEN
        IF query.q = "Index" THEN
            IF query.from_last
            THEN IF query.index >= Len(self.a) THEN None
                 ELSE LET index == Len(self.a) - 1 - query.index
                      IN  IF Get(self.a, index).some
                          THEN [some |-> TRUE, v |-> Get(self.a, index).v, slot |-> index]
                          ELSE None
            ELSE IF Get(self.a, query.index).some
                 THEN [some |-> TRUE, v |-> Get(self.a, query.index).v, slot |-> query.index]
                 ELSE None
        ELSE None
    ELSE IF self.t = "Object" THEN
        IF query.q = "Index" THEN None
        ELSE IF MapGet(self.o, query.key).some
             THEN [some |-> TRUE, v |-> MapGet(self.o, query.key).v, slot |-> query.key]
             ELSE None
    ELSE None

\* a write through the reference access_next_mut returned
Store(self, slot, item) ==
    IF self.t = "Array"
    THEN VArray([i \in 1..Len(self.a) |-> IF i = slot + 1 THEN item ELSE self.a[i]])
    ELSE VObject([i \in 1..Len(self.o) |->
                    IF self.o[i].key = slot THEN Entry(slot, item) ELSE self.o[i]])

\* Access::access: the fold of access_next over the queries
RECURSIVE json_access(_, _)
json_access(self, queries) ==
    IF queries = <<>> THEN Some(self)
    ELSE LET res == json_access_next(self, Head(queries))
         IN  IF res.some THEN json_access(res.v, Tail(queries)) ELSE None

\* query_set_item that appends before it finds a key on an array
json_query_set_item_push_first(self, query, val) ==
    IF self.t = "Array" /\ query.q = "Key"
    THEN [result |-> NotSet, self |-> VArray(Push(self.a, val))]
    ELSE [result |-> NotSet, self |-> self]

\* QuerySetItem for serde_json::Value: the result and the item afterwards
json_query_set_item(self, query, val) ==
    IF self.t = "Array" THEN
        IF query.q = "Index" THEN
            IF query.from_last THEN
                IF query.index >= Len(self.a) THEN [result |-> NotSet, self |-> self]
                ELSE LET index == Len(self.a) - 1 - query.index
                         swapped == SwapRemove(Push(self.a, val), index)
                     IN  [result |-> Replaced(swapped.removed), self |-> VArray(swapped.array)]
            ELSE IF query.index = Len(self.a)
                 THEN [result |-> Set, self |-> VArray(Push(self.a, val))]
            ELSE IF query.index > Len(self.a)
                 THEN LET resized == Resize(self.a, query.index + 1, VNull)
                      IN  [result |-> Set,
                           self |-> VArray([resized EXCEPT ![query.index + 1] = val])]
            ELSE LET swapped == SwapRemove(Push(self.a, val), query.index)
                 IN  [result |-> Replaced(swapped.removed), self |-> VArray(swapped.array)]
        ELSE [result |-> NotSet, self |-> self]
    ELSE IF self.t = "Object" THEN
        IF query.q = "Index" THEN [result |-> NotSet, self |-> self]
        ELSE LET res == MapGet(self.o, query.key)
                 inserted == VObject(MapInsert(self.o, query.key, val))
             IN  IF res.some THEN [result |-> Replaced(res.v), self |-> inserted]
                 ELSE [result |-> Set, self |-> inserted]
    ELSE [result |-> NotSet, self |-> self]

\* SkipLastIter: what it yields, and what it keeps in its field last
SkipLastIter(queries) ==
    IF queries = <<>> THEN [yields |-> <<>>, last |-> None]
    ELSE [yields |-> SubSeq(queries, 1, Len(queries) - 1), last |-> Some(queries[Len(queries)])]

\* AccessMut::access_mut followed by query_set_item on the item it found
RECURSIVE json_set_through(_, _, _, _)
json_set_through(self, queries, last, val) ==
    IF queries = <<>> THEN json_query_set_item(self, last, val)
    ELSE LET res == json_access_next_mut(self, Head(queries))
         IN  IF ~res.some THEN [result |-> NotSet, self |-> self]
             ELSE LET inner == json_set_through(res.v, Tail(queries), last, val)
                  IN  [result |-> inner.result, self |-> Store(self, res.slot, inner.self)]

\* QuerySet::query_set
query_set(self, queries, val) ==
    LET iter == SkipLastIter(queries)
    IN  IF iter.last.some
        THEN json_set_through(self, iter.yields, iter.last.v, val)
        ELSE [result |-> NotSet, self |-> self]

-----------------------------------------------------------------------------
(* Documents and queries the access operations are called with *)

KeyA == <<"a">>
KeyB == <<"b">>

\* an array of n distinct numbers
Numbers(n) == VArray([i \in 1..n |-> VNumber(NInt(10 + i))])

Scalars == {VNull, VBool(TRUE), VNumber(NInt(1)), VString(KeyA)}

JsonDocs ==
    Scalars
        \cup {Numbers(n) : n \in 0..MaxLen}
        \cup {VArray(<<Numbers(n), VObject(<<Entry(KeyA, Numbers(1))>>)>>) : n \in 0..MaxLen}
        \cup {VObject(<<Entry(KeyA, Numbers(n))>>) : n \in 0..MaxLen}
        \cup {VObject(<<>>), VObject(<<Entry(KeyA, VNull), Entry(KeyB, VObject(<<>>))>>)}

ValueDocs ==
    Scalars
        \cup {Numbers(n) : n \in 0..MaxLen}
        \cup {VObject(<<Entry(KNumber(NInt(0)), Numbers(n)), Entry(KString(KeyA), VNull)>>)
                : n \in 0..MaxLen}
        \cup {VAmount(<<Entry(<<"e", "u", "r", "o", "s">>, VNumber(NInt(5)))>>),
              VCustom(VNull)}

QueryParts ==
    {QIndex(n, from_last) : n \in 0..MaxIdx, from_last \in BOOLEAN}
        \cup {QKey(KeyA), QKey(KeyB), QKey(<<"e", "u", "r", "o", "s">>)}

Queries == UNION {[1..k -> QueryParts] : k \in 0..MaxPath}

SetVals == {VNull, VNumber(NInt(99))}

-----------------------------------------------------------------------------
(* Calls on a document *)

NoCall == [fn |-> "none"]

AccInit ==
    /\ overflow_checks \in BOOLEAN
    /\ \/ acc_lib = "json" /\ acc_doc \in JsonDocs
       \/ acc_lib = "value" /\ acc_doc \in ValueDocs
    /\ acc_call = NoCall
    /\ acc_ret = None
    /\ acc_before = acc_doc
    /\ acc_pc = "ready"

\* serde_json::Value::access(queries)
JsonAccess ==
    /\ acc_pc = "ready" /\ acc_lib = "json"
    /\ \E queries \in Queries :
        /\ acc_call' = [fn |-> "access", queries |-> queries]
        /\ acc_ret' = json_access(acc_doc, queries)
    /\ acc_pc' = "returned"
    /\ UNCHANGED <<overflow_checks, acc_lib, acc_doc, acc_before>>
    /\ UNCHANGED <<nloq_vars, de_vars, codec_vars>>

\* serde_json::Value::access_next_mut(query)
JsonAccessNextMut ==
    /\ acc_pc = "ready" /\ acc_lib = "json"
    /\ \E query \in QueryParts :
        /\ acc_call' = [fn |-> "access_next_mut", queries |-> <<query>>]
        /\ acc_ret' = LET res == json_access_next_mut(acc_doc, query)
                      IN  IF res.some THEN Some(res.v) ELSE None
    /\ acc_pc' = "returned"
    /\ UNCHANGED <<overflow_checks, acc_lib, acc_doc, acc_before>>
    /\ UNCHANGED <<nloq_vars, de_vars, codec_vars>>

\* serde_json::Value::query_set(queries, val)
JsonQuerySet ==
    /\ acc_pc = "ready" /\ acc_lib = "json"
    /\ \E queries \in Queries, val \in SetVals :
        LET res == query_set(acc_doc, queries, val)
        IN  /\ acc_call' = [fn |-> "query_set", queries |-> queries, val |-> val]
            /\ acc_ret' = res.result
            /\ acc_doc' = res.self
    /\ acc_pc' = "returned"
    /\ UNCHANGED <<overflow_checks, acc_lib, acc_before>>
    /\ UNCHANGED <<nloq_vars, de_vars, codec_vars>>

\* nlsd_value::Value::access_next(query)
ValueAccessNext ==
    /\ acc_pc = "ready" /\ acc_lib = "value"
    /\ \E query \in QueryParts :
        LET res == value_access_next(acc_doc, query)
        IN  /\ acc_call' = [fn |-> "access_next", queries |-> <<query>>]
            /\ acc_ret' = res.ret
            /\ acc_pc' = IF res.panic THEN "panicked" ELSE "returned"
    /\ UNCHANGED <<overflow_checks, acc_lib, acc_doc, acc_before>>
    /\ UNCHANGED <<nloq_vars, de_vars, codec_vars>>

\* nlsd_value::Value::access_next_mut(query)
ValueAccessNextMut ==
    /\ acc_pc = "ready" /\ acc_lib = "value"
    /\ \E query \in QueryParts :
        LET res == value_access_next_mut(acc_doc, query)
        IN  /\ acc_call' = [fn |-> "access_next_mut", queries |-> <<query>>]
            /\ acc_ret' = res.ret
            /\ acc_pc' = IF res.panic THEN "panicked" ELSE "returned"
    /\ UNCHANGED <<overflow_checks, acc_lib, acc_doc, acc_before>>
    /\ UNCHANGED <<nloq_vars, de_vars, codec_vars>>

AccNext ==
    \/ JsonAccess
    \/ JsonAccessNextMut
    \/ JsonQuerySet
    \/ ValueAccessNext
    \/ ValueAccessNextMut

-----------------------------------------------------------------------------
(* nlsd parser and deserializer: numbers *)

Ok(v, index) == [ok |-> TRUE, v |-> v, index |-> index]
Err(err, index) == [ok |-> FALSE, err |-> err, index |-> index]

RECURSIVE Pow(_, _)
Pow(b, n) == IF n = 0 THEN 1 ELSE b * Pow(b, n - 1)

HasMinus(text) == text # <<>> /\ Head(text) = "-"

Unsigned(text) == IF text # <<>> /\ Head(text) \in {"-", "+"} THEN Tail(text) ELSE text

\* str::parse::<i64>()
ParseI64(text) ==
    IF IsIntegerText(text)
    THEN Some(IF HasMinus(text) THEN 0 - ParseUnsigned(Unsigned(text))
              ELSE ParseUnsigned(Unsigned(text)))
    ELSE None

RECURSIVE StripZeros(_, _, _)
StripZeros(neg, m, e) ==
    IF e > 0 /\ m % 10 = 0 THEN StripZeros(neg, m \div 10, e - 1) ELSE NFloat(neg, m, e)

\* str::parse::<f64>() of a decimal literal
ParseF64(text) ==
    LET body == Unsigned(text)
    IN  IF IsIntegerText(text) THEN Some(NFloat(HasMinus(text), ParseUnsigned(body), 0))
        ELSE IF IsFloatText(text)
        THEN LET p == CHOOSE i \in 1..Len(body) : body[i] = "."
                 digits == SubSeq(body, 1, p - 1) \o SubSeq(body, p + 1, Len(body))
             IN  Some(StripZeros(HasMinus(text), ParseUnsigned(digits), Len(body) - p))
        ELSE None

\* parser::parse_token: the text up to the next whitespace; a string literal
\* read as a token starts with its delimiter
parse_token(src, index) ==
    IF index < Len(src)
    THEN Ok(IF src[index + 1].k = "s" THEN <<src[index + 1].d>> \o src[index + 1].c
            ELSE src[index + 1].c, index + 1)
    ELSE Err("UnexpectedEof", index)

\* parser::parse_number: an i64 if the token parses as one, else an f64
parse_number(src, index) ==
    LET token == parse_token(src, index)
    IN  IF ~token.ok THEN token
        ELSE IF ParseI64(token.v).some THEN Ok(NInt(ParseI64(token.v).v), token.index)
        ELSE IF ParseF64(token.v).some THEN Ok(ParseF64(token.v).v, token.index)
        ELSE Err("InvalidNumber", index)

\* the value of an integer-valued float
FloatInteger(num) == IF num.neg THEN 0 - num.m ELSE num.m

\* widths whose limits the numbers of the model can reach
SmallWidths == {8, 16}

\* a cast that keeps every bit
as_wide(num, bits) == num

\* `num as iN` of an i64: the low bits
WrapSigned(num, bits) ==
    IF bits \in SmallWidths
    THEN ((num + Pow(2, bits - 1)) % Pow(2, bits)) - Pow(2, bits - 1)
    ELSE num

\* `num as uN` of a non-negative i64: the low bits
WrapUnsigned(num, bits) == IF bits \in SmallWidths THEN num % Pow(2, bits) ELSE num

\* `num as iN` of an f64: the nearest value of the width
SaturateSigned(num, bits) ==
    IF bits \in SmallWidths /\ num > Pow(2, bits - 1) - 1 THEN Pow(2, bits - 1) - 1
    ELSE IF bits \in SmallWidths /\ num < 0 - Pow(2, bits - 1) THEN 0 - Pow(2, bits - 1)
    ELSE num

\* `num as uN` of an f64: the nearest value of the width
SaturateUnsigned(num, bits) ==
    IF num < 0 THEN 0
    ELSE IF bits \in SmallWidths /\ num > Pow(2, bits) - 1 THEN Pow(2, bits) - 1
    ELSE num

\* deserialize_i8 .. deserialize_i64 with a visitor that keeps the integer
deserialize_signed(bits, src, index) ==
    LET num == parse_number(src, index)
    IN  IF ~num.ok THEN num
        ELSE IF num.v.n = "Integer" THEN Ok(WrapSigned(num.v.v, bits), num.index)
        ELSE IF num.v.e = 0 THEN Ok(SaturateSigned(FloatInteger(num.v), bits), num.index)
        ELSE Err("ExpectedInteger", num.index)

\* deserialize_uN testing the sign before the fraction
deserialize_unsigned_sign_first(bits, src, index) ==
    LET num == parse_number(src, index)
    IN  IF ~num.ok THEN num
        ELSE IF num.v.n = "Integer" THEN
            IF num.v.v < 0 THEN Err("ExpectedUnsigned", num.index)
            ELSE Ok(WrapUnsigned(num.v.v, bits), num.index)
        ELSE IF num.v.neg THEN Err("ExpectedUnsigned", num.index)
        ELSE IF num.v.e = 0 THEN Ok(SaturateUnsigned(FloatInteger(num.v), bits), num.index)
        ELSE Err("ExpectedInteger", num.index)

\* deserialize_u8 .. deserialize_u64 with a visitor that keeps the integer
deserialize_unsigned(bits, src, index) ==
    LET num == parse_number(src, index)
    IN  IF ~num.ok THEN num
        ELSE IF num.v.n = "Integer" THEN
            IF num.v.v < 0 THEN Err("ExpectedUnsigned", num.index)
            ELSE Ok(WrapUnsigned(num.v.v, bits), num.index)
        ELSE IF num.v.e = 0 THEN
            IF num.v.neg THEN Err("ExpectedUnsigned", num.index)
            ELSE Ok(SaturateUnsigned(FloatInteger(num.v), bits), num.index)
        ELSE Err("ExpectedInteger", num.index)

-----------------------------------------------------------------------------
(* Numeric literals decoded into integer types *)

Widths == {8, 16, 32, 64}

\* whole parts: everything up to MaxWhole, and the limits of 16 bits
WholeParts == (0..MaxWhole) \cup {255, 256, 32767, 32768, 65535, 65536}

\* fractions: none, .0, .00, .5, .25, .50
Fractions == {<<>>, <<"0">>, <<"0", "0">>, <<"5">>, <<"2", "5">>, <<"5", "0">>}

\* a literal: whether it has a minus sign, its whole part, whether it has a
\* point, and the digits after the point
Literals ==
    {[neg |-> neg, whole |-> whole, point |-> point, frac |-> frac] :
        neg \in BOOLEAN, whole \in WholeParts, point \in BOOLEAN, frac \in Fractions}

LiteralText(lit) ==
    (IF lit.neg THEN <<"-">> ELSE <<>>) \o ToDigits(lit.whole)
        \o (IF lit.point THEN <<".">> \o lit.frac ELSE <<>>)

NoLiteral == [neg |-> FALSE, whole |-> 0, point |-> FALSE, frac |-> <<>>]

NumInit ==
    /\ de_lit \in {lit \in Literals : lit.point \/ lit.frac = <<>>}
    /\ de_src = <<Tok(LiteralText(de_lit))>>
    /\ de_stack = <<>>
    /\ de_index = 0
    /\ de_call = NoCall
    /\ de_ret = None
    /\ de_pc = "ready"

\* iN::deserialize(&mut deserializer)
DeserializeSigned ==
    /\ de_pc = "ready"
    /\ \E bits \in Widths :
        LET res == deserialize_signed(bits, de_src, de_index)
        IN  /\ de_call' = [fn |-> "deserialize_signed", bits |-> bits]
            /\ de_ret' = [ok |-> res.ok, v |-> IF res.ok THEN res.v ELSE 0,
                          err |-> IF res.ok THEN "" ELSE res.err]
            /\ de_index' = res.index
    /\ de_pc' = "returned"
    /\ UNCHANGED <<de_src, de_lit, de_stack>>
    /\ UNCHANGED <<nloq_vars, acc_vars, codec_vars>>

\* uN::deserialize(&mut deserializer)
DeserializeUnsigned ==
    /\ de_pc = "ready"
    /\ \E bits \in Widths :
        LET res == deserialize_unsigned(bits, de_src, de_index)
        IN  /\ de_call' = [fn |-> "deserialize_unsigned", bits |-> bits]
            /\ de_ret' = [ok |-> res.ok, v |-> IF res.ok THEN res.v ELSE 0,
                          err |-> IF res.ok THEN "" ELSE res.err]
            /\ de_index' = res.index
    /\ de_pc' = "returned"
    /\ UNCHANGED <<de_src, de_lit, de_stack>>
    /\ UNCHANGED <<nloq_vars, acc_vars, codec_vars>>

NumNext == DeserializeSigned \/ DeserializeUnsigned

-----------------------------------------------------------------------------
(* NLOQ phrases that are fed to the deserializer *)

IS == <<"i", "s">>

\* every way of writing the ordinal n: the word, or the digits and a suffix
OrdinalTexts(n) ==
    (IF n <= Len(OrdinalWords) THEN {OrdinalWords[n]} ELSE {})
        \cup {ToDigits(n) \o suf : suf \in OrdinalSuffixes}

\* a step of the NLOQ grammar: its tokens and the query part it denotes
StepItem(text, n) == [text |-> <<Tok(THE), Tok(text), Tok(ITEM)>>, query |-> QIndex(n - 1, FALSE)]

StepToLast(text, n) ==
    [text |-> <<Tok(THE), Tok(text), Tok(TO), Tok(LAST), Tok(ITEM)>>, query |-> QIndex(n - 1, TRUE)]

StepLast == [text |-> <<Tok(THE), Tok(LAST), Tok(ITEM)>>, query |-> QIndex(0, TRUE)]

StepIdent(word) == [text |-> <<Tok(THE), Tok(word)>>, query |-> QKey(word)]

StepString(content) == [text |-> <<Tok(THE), Str(BackTick, content)>>, query |-> QKey(content)]

\* the steps chains are built from
ChainSteps ==
    { StepItem(OrdinalWords[1], 1), StepToLast(<<"2", "n", "d">>, 2), StepLast,
      StepIdent(<<"n", "a", "m", "e">>), StepIdent(OrdinalWords[1]), StepIdent(LAST),
      StepString(<<"a", " ", "e">>) }

\* one step for each way of writing each ordinal up to MaxOrd
OrdinalSteps ==
    UNION { {StepItem(t, n) : t \in OrdinalTexts(n)} \cup {StepToLast(t, n) : t \in OrdinalTexts(n)}
            : n \in 1..MaxOrd }

NloqChains ==
    UNION { [1..k -> ChainSteps] : k \in 0..MaxSteps }
        \cup { <<s>> : s \in OrdinalSteps }
        \cup { <<s, StepIdent(<<"n", "a", "m", "e">>)>> : s \in OrdinalSteps }

\* ordinals written with a leading 0
ZeroOrdinals == {digits \o suf : digits \in {<<"0">>, <<"0", "1">>}, suf \in OrdinalSuffixes}

\* a phrase around an ordinal with a leading 0; what next() makes of it is
\* the key named like the ordinal
ZeroChains ==
    {<<[text |-> <<Tok(THE), Tok(t), Tok(ITEM)>>, query |-> QKey(t)]>> : t \in ZeroOrdinals}
        \cup {<<[text |-> <<Tok(THE), Tok(t), Tok(TO), Tok(LAST), Tok(ITEM)>>,
                 query |-> QKey(t)]>> : t \in ZeroOrdinals}

\* what may follow the last step of a phrase: nothing, words that start no
\* step, the start of a step that is cut short or names a number, a number
\* named without `of`, and a step that names a number with a step after it
NloqTails ==
    { <<>>, <<Tok(IS)>>, <<Tok(OF), Tok(THE)>>, <<Tok(OF), Tok(THE), Tok(<<"5">>)>>,
      <<Tok(THE), Tok(<<"5">>)>>,
      <<Tok(OF), Tok(THE), Tok(<<"5">>), Tok(OF), Tok(THE), Tok(<<"n", "a", "m", "e">>)>> }

RECURSIVE ChainText(_)
ChainText(chain) ==
    IF chain = <<>> THEN <<>>
    ELSE IF Len(chain) = 1 THEN chain[1].text
    ELSE chain[1].text \o <<Tok(OF)>> \o ChainText(Tail(chain))

ChainQueries(chain) == [i \in 1..Len(chain) |-> chain[i].query]

Reverse(s) == [i \in 1..Len(s) |-> s[Len(s) + 1 - i]]

-----------------------------------------------------------------------------
(* The NLOQ deserializer as a state machine *)

\* Deserializer::from_str on a phrase
NloqInit ==
    \E chain \in NloqChains \cup ZeroChains, tail \in NloqTails :
        /\ nloq_src = ChainText(chain) \o tail
        /\ nloq_steps = ChainQueries(chain)
        /\ nloq_first = TRUE
        /\ nloq_index = 0
        /\ nloq_seen = <<>>
        /\ nloq_query = <<>>
        /\ nloq_pc = "fresh"

\* the caller asks the iterator for one more item
NloqCallNext ==
    /\ nloq_pc \in {"fresh", "iterating", "ended", "exhausted"}
    /\ LET r == NloqNext(nloq_src, nloq_first, nloq_index)
       IN  /\ nloq_first' = r.first
           /\ nloq_index' = r.index
           /\ nloq_seen' = IF r.item = NoItem THEN nloq_seen ELSE Append(nloq_seen, r.item)
           /\ nloq_pc' = IF r.item # NoItem THEN "iterating"
                         ELSE IF nloq_pc \in {"ended", "exhausted"} THEN "exhausted"
                         ELSE "ended"
    /\ UNCHANGED <<nloq_src, nloq_steps, nloq_query>>
    /\ UNCHANGED <<acc_vars, de_vars, codec_vars>>

\* the caller asks for the whole remaining query
NloqCallQuery ==
    /\ nloq_pc \in {"fresh", "iterating"}
    /\ LET r == NloqQueryLoop(nloq_src, nloq_first, nloq_index, <<>>)
       IN  /\ nloq_first' = r.first
           /\ nloq_index' = r.index
           /\ nloq_query' = r.out
    /\ nloq_pc' = "queried"
    /\ UNCHANGED <<nloq_src, nloq_steps, nloq_seen>>
    /\ UNCHANGED <<acc_vars, de_vars, codec_vars>>

NloqNextStep == NloqCallNext \/ NloqCallQuery

-----------------------------------------------------------------------------
(* nlsd serializer: src/src/ser.rs *)

WHERE == <<"w", "h", "e", "r", "e">>
AN == <<"a", "n">>
AND == <<"a", "n", "d">>
ANOTHER == <<"a", "n", "o", "t", "h", "e", "r">>
HENCEFORTH == <<"h", "e", "n", "c", "e", "f", "o", "r", "t", "h">>
LIST == <<"l", "i", "s", "t">>
OBJECT == <<"o", "b", "j", "e", "c", "t">>
EMPTY == <<"e", "m", "p", "t", "y">>
NOTHING == <<"n", "o", "t", "h", "i", "n", "g">>
WHICH == <<"w", "h", "i", "c", "h">>

\* the words read as true and as false
TrueWords == {<<"t", "r", "u", "e">>, <<"o", "n">>, <<"e", "n", "a", "b", "l", "e", "d">>}
FalseWords == {<<"f", "a", "l", "s", "e">>, <<"o", "f", "f">>,
               <<"d", "i", "s", "a", "b", "l", "e", "d">>}

\* the synthetic variant names of an Amount and of a Custom value
AMOUNT_VARIANT_NAME == <<"a", "m", "o", "u", "n", "t">>
CUSTOM_VARIANT_NAME ==
    <<"n", "o", "n", " ", "s", "t", "a", "n", "d", "a", "r", "d", " ", "o", "b", "j", "e", "c", "t">>

IsWhitespace(ch) == ch = " "

Uppercase == {"A", "B", "C", "U"}

ToLowercase(ch) ==
    CASE ch = "A" -> "a" [] ch = "B" -> "b" [] ch = "C" -> "c" [] ch = "U" -> "u" [] OTHER -> ch

ToUppercase(ch) ==
    CASE ch = "a" -> "A" [] ch = "b" -> "B" [] ch = "c" -> "C" [] ch = "u" -> "U" [] OTHER -> ch

\* str::trim
RECURSIVE Trim(_)
Trim(s) ==
    IF s = <<>> THEN s
    ELSE IF IsWhitespace(Head(s)) THEN Trim(Tail(s))
    ELSE IF IsWhitespace(s[Len(s)]) THEN Trim(SubSeq(s, 1, Len(s) - 1))
    ELSE s

\* [String]::join(" ")
RECURSIVE Join(_)
Join(parts) ==
    IF parts = <<>> THEN <<>>
    ELSE IF Len(parts) = 1 THEN parts[1]
    ELSE parts[1] \o <<" ">> \o Join(Tail(parts))

\* the bytes of a written sentence
WriterText(writer) ==
    Join([i \in 1..Len(writer) |->
            IF writer[i].k = "s" THEN <<writer[i].d>> \o writer[i].c \o <<writer[i].d>>
            ELSE writer[i].c])

\* str::replace of every back-tick by a backslash and a back-tick
RECURSIVE EscapeTicks(_)
EscapeTicks(string) ==
    IF string = <<>> THEN <<>>
    ELSE (IF Head(string) = BackTick THEN <<BackSlash, BackTick>> ELSE <<Head(string)>>)
            \o EscapeTicks(Tail(string))

\* the string literal a text is written as
format_str(string) == Str(BackTick, EscapeTicks(string))

\* what one iteration of the loop of humanize pushes onto out
HumanizePush(ch, buffer) ==
    IF ch = "_" THEN <<" ">>
    ELSE IF IsWhitespace(ch) THEN <<ch>>
    ELSE IF ch \in Uppercase THEN <<>>
    ELSE IF Len(buffer) > 2
    THEN <<" ">> \o SubSeq(buffer, 1, Len(buffer) - 1)
            \o <<" ", ToLowercase(buffer[Len(buffer)]), ch>>
    ELSE IF buffer # <<>>
    THEN (IF Len(buffer) = 2
          THEN <<" ", ToLowercase(buffer[1]), " ", ToLowercase(buffer[2])>>
          ELSE <<" ", ToLowercase(buffer[1])>>) \o <<ch>>
    ELSE <<ch>>

\* the buffer of upper-case characters after one iteration
HumanizeBuffer(ch, buffer) ==
    IF ch = "_" \/ IsWhitespace(ch) THEN buffer
    ELSE IF ch \in Uppercase THEN buffer \o <<ch>>
    ELSE <<>>

\* what the loop pushes onto out for the rest of the string, and the
\* buffer that is left over at the end
RECURSIVE HumanizeLoop(_, _)
HumanizeLoop(string, buffer) ==
    IF string = <<>> THEN (IF buffer # <<>> THEN <<" ">> \o buffer ELSE <<>>)
    ELSE HumanizePush(Head(string), buffer)
            \o HumanizeLoop(Tail(string), HumanizeBuffer(Head(string), buffer))

humanize(string) == Trim(HumanizeLoop(string, <<>>))

\* Serializer::with_context; err is the error a write returned, if any
Serializer(writer, context) == [context |-> context, writer |-> writer, err |-> ""]

push_named_context(self, name) ==
    [self EXCEPT !.context =
        Append(@, IF @ = <<>> THEN THE \o <<" ">> \o humanize(name) ELSE humanize(name))]

push_list_context(self) ==
    [self EXCEPT !.context = Append(@, IF @ = <<>> THEN THE \o <<" ">> \o LIST ELSE LIST)]

push_object_context(self) ==
    [self EXCEPT !.context = Append(@, IF @ = <<>> THEN THE \o <<" ">> \o OBJECT ELSE OBJECT)]

current_scope(self) == Join(self.context)

parent_scope(self) ==
    IF self.context = <<>> THEN <<>> ELSE Join(SubSeq(self.context, 1, Len(self.context) - 1))

\* Compound::new of the serializer
SerCompound(serializer, name) ==
    [serializer |-> serializer, name |-> name, index |-> 0, is_leaf |-> TRUE,
     is_new_scope |-> FALSE, buffer |-> <<>>, err |-> ""]

init_list(self) ==
    IF self.index # 0 THEN self
    ELSE IF self.name.some
    THEN [self EXCEPT !.serializer = push_named_context(@, self.name.v)]
    ELSE [self EXCEPT !.serializer = push_list_context(@)]

init_object(self) ==
    IF self.index # 0 THEN self
    ELSE IF self.name.some
    THEN [self EXCEPT !.serializer = push_named_context(@, self.name.v)]
    ELSE [self EXCEPT !.serializer = push_object_context(@)]

an_item(self) ==
    [self EXCEPT
        !.buffer = @ \o (IF self.index = 0 THEN <<Tok(WHERE), Tok(AN)>>
                         ELSE <<Tok(AND), Tok(ANOTHER)>>) \o <<Tok(ITEM)>>,
        !.index = @ + 1,
        !.serializer.context = Append(@, ITEM \o <<" ">> \o ToDigits(self.index + 1))]

StartsWith(s, prefix) == Len(s) >= Len(prefix) /\ SubSeq(s, 1, Len(prefix)) = prefix

Write(self, tokens) == [self EXCEPT !.writer = @ \o tokens]

\* Display of an i64
IntegerText(n) == IF n < 0 THEN <<"-">> \o ToDigits(0 - n) ELSE ToDigits(n)

RECURSIVE PadDigits(_, _)
PadDigits(digits, width) ==
    IF Len(digits) >= width THEN digits ELSE PadDigits(<<"0">> \o digits, width)

\* Display of an f64: no point when the fraction is zero
FloatText(num) ==
    (IF num.neg THEN <<"-">> ELSE <<>>)
        \o ToDigits(num.m \div Pow(10, num.e))
        \o (IF num.e = 0 THEN <<>>
            ELSE <<".">> \o PadDigits(ToDigits(num.m % Pow(10, num.e)), num.e))

NumberText(num) == IF num.n = "Integer" THEN IntegerText(num.v) ELSE FloatText(num)

serialize_bool(self, v) ==
    Write(self, <<Tok(IF v THEN <<"t", "r", "u", "e">> ELSE <<"f", "a", "l", "s", "e">>)>>)

serialize_number(self, num) == Write(self, <<Tok(NumberText(num))>>)

serialize_str(self, v) == Write(self, <<format_str(v)>>)

serialize_unit(self) == Write(self, <<Tok(EMPTY)>>)

RECURSIVE value_serialize(_, _)

\* Serialize for Key; a map key of another type serializes as its type does
key_serialize(serializer, self) ==
    IF "k" \notin DOMAIN self THEN value_serialize(serializer, self)
    ELSE CASE self.k = "Bool" -> serialize_bool(serializer, self.b)
           [] self.k = "Number" -> serialize_number(serializer, self.n)
           [] self.k = "String" -> serialize_str(serializer, self.s)

\* Compound::the_key with every key accepted as the name of the entry
the_key_unchecked(self, name) ==
    LET serialized_name == key_serialize(Serializer(<<>>, <<>>), name)
        text == humanize(WriterText(serialized_name.writer))
    IN  [self EXCEPT
            !.buffer = @ \o <<Tok(IF self.index = 0 THEN WHERE ELSE AND), Tok(THE),
                              format_str(text)>>,
            !.index = @ + 1,
            !.serializer.context = Append(@, text)]

the_key(self, name) ==
    LET serialized_name == key_serialize(Serializer(<<>>, <<>>), name)
        text == humanize(WriterText(serialized_name.writer))
        inner == SubSeq(text, 2, Len(text) - 1)
    IN  IF ~(Len(text) > 1 /\ text[1] = BackTick /\ text[Len(text)] = BackTick)
        THEN [self EXCEPT !.err = "UnexpectedKeyType"]
        ELSE [self EXCEPT
                !.buffer = @ \o <<Tok(IF self.index = 0 THEN WHERE ELSE AND)>>
                             \o (IF StartsWith(inner, IS \o <<" ">>) THEN <<format_str(inner)>>
                                 ELSE <<Tok(THE), format_str(inner)>>),
                !.index = @ + 1,
                !.serializer.context = Append(@, inner)]

\* an entry after a nested compound names the scope it belongs to
of_scope_unscoped(self) ==
    IF self.is_new_scope THEN [self EXCEPT !.is_new_scope = FALSE, !.is_leaf = FALSE] ELSE self

\* Compound::of_scope naming the scope of the entry instead of its parent's
of_scope_current(self) ==
    IF self.is_new_scope
    THEN [self EXCEPT !.buffer = @ \o <<Tok(OF), format_str(current_scope(self.serializer))>>,
                      !.is_new_scope = FALSE,
                      !.is_leaf = FALSE]
    ELSE self

of_scope(self) ==
    IF self.is_new_scope
    THEN [self EXCEPT !.buffer = @ \o <<Tok(OF), format_str(parent_scope(self.serializer))>>,
                      !.is_new_scope = FALSE,
                      !.is_leaf = FALSE]
    ELSE self

is(self) == [self EXCEPT !.buffer = @ \o <<Tok(IS)>>]

\* Compound::value: the value is written by a serializer of its own, which
\* starts from a copy of the buffer and of the context
value(self, v) ==
    LET serializer == value_serialize(Serializer(self.buffer, self.serializer.context), v)
    IN  IF serializer.err # "" THEN [self EXCEPT !.err = serializer.err]
        ELSE [self EXCEPT
                !.buffer = serializer.writer,
                !.is_new_scope =
                    IF Len(serializer.context) > Len(self.serializer.context) THEN TRUE ELSE @,
                !.serializer.context = SubSeq(@, 1, Len(@) - 1)]

the_list(self) ==
    [self EXCEPT !.serializer =
        Write(@, <<Tok(THE)>> \o (IF self.index > 0 THEN <<>> ELSE <<Tok(EMPTY)>>)
                    \o <<IF self.name.some THEN format_str(humanize(self.name.v))
                         ELSE Tok(LIST)>>)]

the_object(self) ==
    [self EXCEPT !.serializer =
        Write(@, <<Tok(THE)>> \o (IF self.index > 0 THEN <<>> ELSE <<Tok(EMPTY)>>)
                    \o <<IF self.name.some THEN format_str(humanize(self.name.v))
                         ELSE Tok(OBJECT)>>)]

\* Compound::contents with the scope never declared
contents_undeclared(self) ==
    [self EXCEPT !.serializer = Write(@, self.buffer)]

contents(self) ==
    [self EXCEPT !.serializer =
        Write(@, (IF ~self.is_leaf
                  THEN <<Tok(HENCEFORTH), format_str(current_scope(self.serializer))>>
                  ELSE <<>>) \o self.buffer)]

\* SerializeSeq::serialize_element
serialize_element(self, v) ==
    IF self.err # "" THEN self ELSE value(is(of_scope(an_item(init_list(self)))), v)

\* SerializeMap::serialize_key
serialize_key(self, key) ==
    LET named == the_key(init_object(self), key)
    IN  IF self.err # "" THEN self ELSE IF named.err # "" THEN named ELSE of_scope(named)

\* SerializeMap::serialize_value
serialize_value(self, v) == IF self.err # "" THEN self ELSE value(is(self), v)

\* SerializeStruct::serialize_field
serialize_field(self, key, v) ==
    LET named == the_key(init_object(self), KString(key))
    IN  IF self.err # "" THEN self
        ELSE IF named.err # "" THEN named
        ELSE value(is(of_scope(named)), v)

\* SerializeSeq::end and SerializeMap::end: the serializer afterwards
seq_end(self) ==
    IF self.err # "" THEN [self.serializer EXCEPT !.err = self.err]
    ELSE contents(the_list(self)).serializer

map_end(self) ==
    IF self.err # "" THEN [self.serializer EXCEPT !.err = self.err]
    ELSE contents(the_object(self)).serializer

RECURSIVE SerializeElements(_, _)
SerializeElements(seq, a) ==
    IF a = <<>> THEN seq ELSE SerializeElements(serialize_element(seq, Head(a)), Tail(a))

RECURSIVE SerializeEntries(_, _)
SerializeEntries(map, obj) ==
    IF obj = <<>> THEN map
    ELSE SerializeEntries(serialize_value(serialize_key(map, Head(obj).key), Head(obj).val),
                          Tail(obj))

RECURSIVE SerializeFields(_, _)
SerializeFields(st, obj) ==
    IF obj = <<>> THEN st
    ELSE SerializeFields(serialize_field(st, Head(obj).key, Head(obj).val), Tail(obj))

\* Serialize for Value; the payload of a Custom value is a value of its own
value_serialize(serializer, self) ==
    CASE self.t = "Null" -> serialize_unit(serializer)
      [] self.t = "Bool" -> serialize_bool(serializer, self.b)
      [] self.t = "Number" -> serialize_number(serializer, self.n)
      [] self.t = "String" -> serialize_str(serializer, self.s)
      [] self.t = "Array" -> seq_end(SerializeElements(SerCompound(serializer, None), self.a))
      [] self.t = "Object" -> map_end(SerializeEntries(SerCompound(serializer, None), self.o))
      [] self.t = "Amount" ->
            IF Len(self.m) = 1
            THEN serialize_str(serializer,
                     NumberText(self.m[1].val.n) \o <<" ">> \o self.m[1].key)
            ELSE map_end(SerializeFields(
                     SerCompound(serializer, Some(AMOUNT_VARIANT_NAME)), self.m))
      [] self.t = "Custom" -> value_serialize(serializer, self.c)

\* helpers::to_string: the written sentence, or the error
to_string(v) ==
    LET ser == value_serialize(Serializer(<<>>, <<>>), v)
    IN  IF ser.err # "" THEN [ok |-> FALSE, err |-> ser.err]
        ELSE [ok |-> TRUE, v |-> ser.writer]
-----------------------------------------------------------------------------
(* nlsd deserializer: src/src/de.rs *)

\* str::replace of every backslash and back-tick by a back-tick
RECURSIVE unescape_str(_)
unescape_str(string) ==
    IF Len(string) >= 2 /\ string[1] = BackSlash /\ string[2] = BackTick
    THEN <<BackTick>> \o unescape_str(SubSeq(string, 3, Len(string)))
    ELSE IF string = <<>> THEN <<>>
    ELSE <<Head(string)>> \o unescape_str(Tail(string))

RECURSIVE DehumanizeLoop(_, _, _, _)
DehumanizeLoop(string, out, was_whitespace, camel) ==
    IF string = <<>> THEN out
    ELSE IF IsWhitespace(Head(string)) THEN DehumanizeLoop(Tail(string), out, TRUE, camel)
    ELSE DehumanizeLoop(Tail(string),
            IF camel
            THEN out \o <<IF was_whitespace \/ out = <<>> THEN ToUppercase(Head(string))
                          ELSE Head(string)>>
            ELSE out \o (IF was_whitespace /\ out # <<>> THEN <<"_">> ELSE <<>>)
                     \o <<Head(string)>>,
            FALSE, camel)

dehumanize_snake(string) == DehumanizeLoop(string, <<>>, FALSE, FALSE)

dehumanize_camel(string) == DehumanizeLoop(string, <<>>, FALSE, TRUE)

dehumanize_match(string, candidates) ==
    IF string \in candidates THEN Some(string)
    ELSE IF dehumanize_snake(string) \in candidates THEN Some(dehumanize_snake(string))
    ELSE IF dehumanize_camel(string) \in candidates THEN Some(dehumanize_camel(string))
    ELSE None

peek_next(src, index) ==
    IF index < Len(src) THEN Ok(Parsed(src[index + 1]), index) ELSE Err("UnexpectedEof", index)

parse_next(src, index) ==
    IF index < Len(src) THEN Ok(Parsed(src[index + 1]), index + 1)
    ELSE Err("UnexpectedEof", index)

parse_string(src, index) ==
    IF index >= Len(src) THEN Err("UnexpectedEof", index)
    ELSE IF src[index + 1].k = "s" THEN Ok(src[index + 1].c, index + 1)
    ELSE Err("InvalidString", index)

parse_and_expect_token(src, index, token) ==
    LET parsed == parse_token(src, index)
    IN  IF ~parsed.ok THEN parsed
        ELSE IF parsed.v = token THEN parsed
        ELSE Err("ExpectedKeyWord", parsed.index)

\* the units U::from_str knows: those of the currency for a Value, none for
\* the SimpleValue inside a Custom value
Units(visitor) == IF visitor = "Value" THEN UnitNames ELSE {}

\* Number::from_str
NumberFromStr(s) == IF ParseI64(s).some THEN Some(NInt(ParseI64(s).v)) ELSE ParseF64(s)

\* ValueVisitor::visit_str; no string of the model reads as a date or a time
value_visit_str(visitor, v) ==
    IF \E i \in 1..Len(v) : v[i] = " "
    THEN LET index == CHOOSE i \in 1..Len(v) : v[i] = " " /\ \A j \in 1..(i - 1) : v[j] # " "
             num == NumberFromStr(SubSeq(v, 1, index - 1))
             unit == SubSeq(v, index + 1, Len(v))
         IN  IF num.some /\ unit \in Units(visitor)
             THEN VAmount(<<Entry(unit, VNumber(num.v))>>)
             ELSE VString(v)
    ELSE VString(v)

\* what a visitor makes of a scalar: ValueVisitor, KeyVisitor, NumberVisitor,
\* the visitors of a String and of a bool and the visitor of a derived field
\* or variant identifier; a visit the visitor does not implement fails
visit(visitor, scalar, index) ==
    CASE visitor \in {"Value", "SimpleValue"} ->
            Ok(IF scalar.t = "String" THEN value_visit_str(visitor, scalar.s) ELSE scalar, index)
      [] visitor = "Key" /\ scalar.t = "Bool" -> Ok(KBool(scalar.b), index)
      [] visitor = "Key" /\ scalar.t = "Number" -> Ok(KNumber(scalar.n), index)
      [] visitor = "Key" /\ scalar.t = "String" -> Ok(KString(scalar.s), index)
      [] visitor = "Number" /\ scalar.t = "Number" -> Ok(scalar, index)
      [] visitor = "String" /\ scalar.t = "String" -> Ok(scalar.s, index)
      [] visitor = "Identifier" /\ scalar.t = "String" -> Ok(scalar.s, index)
      [] visitor = "Bool" /\ scalar.t = "Bool" -> Ok(scalar, index)
      [] OTHER -> Err("invalid type", index)

deserialize_bool(visitor, src, index) ==
    LET token == parse_token(src, index)
    IN  IF ~token.ok THEN token
        ELSE IF token.v \in TrueWords THEN visit(visitor, VBool(TRUE), token.index)
        ELSE IF token.v \in FalseWords THEN visit(visitor, VBool(FALSE), token.index)
        ELSE Err("ExpectedBool", token.index)

deserialize_unit(visitor, src, index) ==
    LET token == parse_token(src, index)
    IN  IF ~token.ok THEN token
        ELSE IF token.v \in {EMPTY, NOTHING} THEN visit(visitor, VNull, token.index)
        ELSE Err("ExpectedNull", token.index)

deserialize_i64(visitor, src, index) ==
    LET num == deserialize_signed(64, src, index)
    IN  IF ~num.ok THEN num ELSE visit(visitor, VNumber(NInt(num.v)), num.index)

deserialize_f64(visitor, src, index) ==
    LET num == parse_number(src, index)
    IN  IF ~num.ok THEN num
        ELSE IF num.v.n = "Integer"
        THEN visit(visitor, VNumber(NFloat(num.v.v < 0, IF num.v.v < 0 THEN 0 - num.v.v ELSE num.v.v, 0)),
                   num.index)
        ELSE visit(visitor, VNumber(num.v), num.index)

deserialize_str(visitor, src, index) ==
    LET string == parse_string(src, index)
    IN  IF ~string.ok THEN string
        ELSE visit(visitor, VString(unescape_str(string.v)), string.index)

\* MapExpectedKey::deserialize_str
expected_deserialize_str(visitor, expected_keys, src, index) ==
    LET string == parse_string(src, index)
        matched == dehumanize_match(unescape_str(string.v), expected_keys)
    IN  IF ~string.ok THEN string
        ELSE visit(visitor,
                   VString(IF matched.some THEN matched.v ELSE dehumanize_snake(string.v)),
                   string.index)

\* MapExpectedKey::deserialize_any, and deserialize_string for a String
expected_deserialize(visitor, expected_keys, src, index) ==
    LET peek == peek_next(src, index)
    IN  IF visitor = "String" THEN expected_deserialize_str(visitor, expected_keys, src, index)
        ELSE IF ~peek.ok THEN peek
        ELSE IF peek.v.p = "Str" THEN expected_deserialize_str(visitor, expected_keys, src, index)
        ELSE Err("ExpectedStringMapKey", index)

\* MapKey::deserialize_any, and deserialize_string for a String
map_key_deserialize(visitor, src, index) ==
    LET peek == peek_next(src, index)
    IN  IF visitor = "String" THEN deserialize_str(visitor, src, index)
        ELSE IF ~peek.ok THEN peek
        ELSE IF peek.v.p = "Str" THEN deserialize_str(visitor, src, index)
        ELSE IF peek.v.p = "Number"
        THEN IF ParseI64(peek.v.c).some THEN deserialize_i64(visitor, src, index)
             ELSE deserialize_f64(visitor, src, index)
        ELSE IF peek.v.c \in TrueWords \cup FalseWords THEN deserialize_bool(visitor, src, index)
        ELSE IF peek.v.c \in {EMPTY, NOTHING} THEN deserialize_unit(visitor, src, index)
        ELSE Err("ExpectedPrimitiveMapKey", index)

\* Compound::new and Compound::new_with_expected of the deserializer
DeCompound(expected_keys) ==
    [name |-> None, scope |-> None, kind |-> "None", is_empty |-> FALSE, first |-> TRUE,
     expected_keys |-> expected_keys]

is_list(self) == self.is_empty \/ self.kind = "List"

is_object(self) == self.is_empty \/ self.kind = "Object"

is_described(self) == self.kind # "None" \/ self.is_empty

\* Compound::describe from the keyword where on, with a compound named by a
\* string taken for an object whatever its first entry
describe_where_object(self, src, index) ==
    LET token == parse_token(src, index)
    IN  IF self.is_empty THEN Ok(self, index)
        ELSE IF ~token.ok THEN token
        ELSE IF token.v # WHERE THEN Err("ExpectedKeyWord", token.index)
        ELSE IF self.kind # "None" THEN Ok(self, token.index)
        ELSE Ok([self EXCEPT !.kind = "Object"], token.index)

\* Compound::describe from the keyword where on
describe_where(self, src, index) ==
    LET token == parse_token(src, index)
        peek == peek_next(src, token.index)
    IN  IF self.is_empty THEN Ok(self, index)
        ELSE IF ~token.ok THEN token
        ELSE IF token.v # WHERE THEN Err("ExpectedKeyWord", token.index)
        ELSE IF self.kind # "None" THEN Ok(self, token.index)
        ELSE IF ~peek.ok THEN peek
        ELSE IF peek.v.p \in {"Str", "Number"} THEN Ok([self EXCEPT !.kind = "Object"], token.index)
        ELSE IF peek.v.c = AN THEN Ok([self EXCEPT !.kind = "List"], token.index)
        ELSE IF peek.v.c \in {THE, EMPTY, NOTHING} \cup TrueWords \cup FalseWords
        THEN Ok([self EXCEPT !.kind = "Object"], token.index)
        ELSE Err("ExpectedKeyWord", token.index)

describe(self, src, index) ==
    LET Scope(named, scope) ==
            IF ~scope.ok THEN scope
            ELSE IF scope.v.p # "Str" THEN Err("ExpectedString", scope.index)
            ELSE describe_where([named EXCEPT !.scope = Some(scope.v.c)], src, scope.index)
        Named(named, at, henceforth) ==
            IF henceforth.ok /\ henceforth.v = PToken(HENCEFORTH)
            THEN Scope(named, parse_next(src, at + 1))
            ELSE describe_where(named, src, at)
        Descriptor(is_empty, next) ==
            IF ~next.ok THEN next
            ELSE IF next.v.p = "Number"
                    \/ (next.v.p = "Token" /\ next.v.c \notin {LIST, OBJECT})
            THEN Err("ExpectedObjectDescriptor", next.index)
            ELSE Named([self EXCEPT
                            !.is_empty = IF is_empty THEN TRUE ELSE @,
                            !.kind = IF next.v = PToken(LIST) THEN "List"
                                     ELSE IF next.v = PToken(OBJECT) THEN "Object" ELSE @,
                            !.name = IF next.v.p = "Str" THEN Some(next.v.c) ELSE @],
                       next.index, peek_next(src, next.index))
        Empty(peek) ==
            IF ~peek.ok THEN peek
            ELSE Descriptor(peek.v = PToken(EMPTY),
                            parse_next(src, IF peek.v = PToken(EMPTY) THEN peek.index + 1
                                            ELSE peek.index))
        The(the) ==
            IF ~the.ok THEN the
            ELSE IF the.v # THE THEN Err("ExpectedKeyWord", the.index)
            ELSE Empty(peek_next(src, the.index))
    IN  The(parse_token(src, index))

\* what next_element_seed and next_key_seed return besides the index: the
\* element or key, if there is one, and the compound afterwards
Step(compound, option, index) ==
    [ok |-> TRUE, v |-> option, index |-> index, compound |-> compound]

\* the end of the compound with the cursor left where it is
Advanced(self, start_index, cursor) ==
    [ok |-> TRUE, v |-> None, index |-> cursor, compound |-> self, rolled |-> cursor]

\* the end of the compound with the cursor put at the start of the sentence
RolledToStart(self, start_index, cursor) ==
    [ok |-> TRUE, v |-> None, index |-> 0, compound |-> self, rolled |-> cursor]

\* self.de.rollback(start_index); return Ok(None): the end of the compound,
\* the cursor restored, and where the cursor was when it was restored
RolledBack(self, start_index, cursor) ==
    [ok |-> TRUE, v |-> None, index |-> start_index, compound |-> self, rolled |-> cursor]

\* parse_and_expect_token after a step that may have failed
expect(parsed, src, token) ==
    IF ~parsed.ok THEN parsed ELSE parse_and_expect_token(src, parsed.index, token)

\* the clause "of <scope>" taken to name this compound whatever the scope
of_clause_any(self, src, parsed) ==
    LET peek == peek_next(src, parsed.index)
        scope == parse_string(src, parsed.index + 1)
    IN  IF ~parsed.ok THEN parsed
        ELSE IF ~peek.ok THEN peek
        ELSE IF peek.v # PToken(OF) THEN Ok(TRUE, parsed.index)
        ELSE IF ~scope.ok THEN scope
        ELSE Ok(TRUE, scope.index)

\* the clause "of <scope>" after an item or a key: whether it names this compound
of_clause(self, src, parsed) ==
    LET peek == peek_next(src, parsed.index)
        scope == parse_string(src, parsed.index + 1)
    IN  IF ~parsed.ok THEN parsed
        ELSE IF ~peek.ok THEN peek
        ELSE IF peek.v # PToken(OF) THEN Ok(TRUE, parsed.index)
        ELSE IF ~scope.ok THEN scope
        ELSE Ok(self.scope = Some(scope.v), scope.index)

RECURSIVE deserialize_any(_, _, _)

\* seed.deserialize(de): a bool asks for deserialize_bool, a Value, a Key and
\* a Number for deserialize_any
seed_deserialize(seed, src, index) ==
    IF seed = "Bool" THEN deserialize_bool(seed, src, index)
    ELSE deserialize_any(seed, src, index)

\* next_element_seed: the element that was read, and the compound afterwards
element_read(self, res) ==
    IF ~res.ok THEN res
    ELSE Step([self EXCEPT !.first = FALSE], Some(res.v), res.index)

\* next_element_seed after "is": the element is read by the seed
element_value(self, seed, src, is_token) ==
    IF ~is_token.ok THEN is_token
    ELSE element_read(self, seed_deserialize(seed, src, is_token.index))

\* next_element_seed after the clause "of <scope>"
element_scoped(self, seed, src, start_index, of) ==
    IF ~of.ok THEN of
    ELSE IF ~of.v
    THEN IF self.first THEN Err("ShouldBeDeclaredEmpty", of.index)
         ELSE RolledBack(self, start_index, of.index)
    ELSE element_value(self, seed, src, expect(of, src, IS))

\* next_element_seed of a described compound
element_item(self, seed, src, start_index, and) ==
    IF self.is_empty THEN Step(self, None, start_index)
    ELSE IF ~is_list(self) THEN Err("ExpectedListItem", start_index)
    ELSE IF ~self.first /\ ~and.ok /\ and.err = "UnexpectedEof"
    THEN Step(self, None, start_index)
    ELSE element_scoped(self, seed, src, start_index,
            of_clause(self, src,
                expect(IF self.first THEN parse_and_expect_token(src, start_index, AN)
                       ELSE expect(and, src, ANOTHER),
                       src, ITEM)))

\* next_element_seed once the compound is described
element_described(seed, src, described) ==
    IF ~described.ok THEN described
    ELSE element_item(described.v, seed, src, described.index,
                      parse_and_expect_token(src, described.index, AND))

\* next_element_seed for an element read by the given visitor
next_element_seed(compound, seed, src, index) ==
    element_described(seed, src,
        IF is_described(compound) THEN Ok(compound, index)
        ELSE describe(compound, src, index))

\* next_key_seed for a key read by the given visitor
next_key_seed(compound, visitor, src, index) ==
    LET Key(self, is_token, res) ==
            IF ~is_token.ok THEN is_token
            ELSE Step([self EXCEPT !.first = FALSE], Some(res.v), is_token.index)
        Scoped(self, start_index, res, of) ==
            IF ~of.ok THEN of
            ELSE IF ~of.v
            THEN IF self.first THEN Err("ShouldBeDeclaredEmpty", of.index)
                 ELSE RolledBack(self, start_index, of.index)
            ELSE Key(self, expect(of, src, IS), res)
        Named(self, start_index, res) ==
            IF ~res.ok THEN res ELSE Scoped(self, start_index, res, of_clause(self, src, res))
        Entry_(self, start_index, peek) ==
            IF ~peek.ok THEN peek
            ELSE Named(self, start_index,
                    IF self.expected_keys.some
                    THEN expected_deserialize(visitor, self.expected_keys.v, src,
                            IF peek.v = PToken(THE) THEN peek.index + 1 ELSE peek.index)
                    ELSE map_key_deserialize(visitor, src,
                            IF peek.v = PToken(THE) THEN peek.index + 1 ELSE peek.index))
        Described(self, start_index, and) ==
            IF self.is_empty THEN Step(self, None, start_index)
            ELSE IF ~is_object(self) THEN Err("ExpectedObjectEntry", start_index)
            ELSE IF ~self.first /\ ~and.ok
            THEN IF and.err = "UnexpectedEof" THEN Step(self, None, start_index) ELSE and
            ELSE Entry_(self, start_index,
                        peek_next(src, IF self.first THEN start_index ELSE and.index))
        Start(described) ==
            IF ~described.ok THEN described
            ELSE Described(described.v, described.index,
                           parse_and_expect_token(src, described.index, AND))
    IN  Start(IF is_described(compound) THEN Ok(compound, index)
              ELSE describe(compound, src, index))

\* a number as a signed mantissa and a decimal exponent
Mantissa(num) == IF num.n = "Integer" THEN num.v ELSE FloatInteger(num)

Exponent(num) == IF num.n = "Integer" THEN 0 ELSE num.e

\* Ord for Number
NumberLess(a, b) == Mantissa(a) * Pow(10, Exponent(b)) < Mantissa(b) * Pow(10, Exponent(a))

\* Ord for Key: a Bool is below a Number, a Number below a String
KeyLess(a, b) ==
    LET Rank(key) == CASE key.k = "Bool" -> 0 [] key.k = "Number" -> 1 [] key.k = "String" -> 2
    IN  IF Rank(a) # Rank(b) THEN Rank(a) < Rank(b)
        ELSE IF a.k = "Bool" THEN ~a.b /\ b.b
        ELSE IF a.k = "Number" THEN NumberLess(a.n, b.n)
        ELSE StrLess(a.s, b.s)

\* BTreeMap<Key, _>::insert: the map afterwards
ObjectInsert(map, key, val) ==
    LET Same(i) == ~KeyLess(map[i].key, key) /\ ~KeyLess(key, map[i].key)
        below == Cardinality({i \in 1..Len(map) : KeyLess(map[i].key, key)})
    IN  IF \E i \in 1..Len(map) : Same(i)
        THEN [i \in 1..Len(map) |-> IF Same(i) THEN Entry(map[i].key, val) ELSE map[i]]
        ELSE SubSeq(map, 1, below) \o <<Entry(key, val)>> \o SubSeq(map, below + 1, Len(map))

RECURSIVE visit_seq(_, _, _, _, _)

\* ValueVisitor::visit_seq after next_element
visit_seq_next(visitor, src, out, next) ==
    IF ~next.ok THEN next
    ELSE IF ~next.v.some THEN Ok(VArray(out), next.index)
    ELSE visit_seq(visitor, next.compound, src, next.index, Append(out, next.v.v))

\* ValueVisitor::visit_seq
visit_seq(visitor, seq, src, index, out) ==
    IF visitor \notin {"Value", "SimpleValue"} THEN Err("invalid type", index)
    ELSE visit_seq_next(visitor, src, out, next_element_seed(seq, visitor, src, index))

RECURSIVE visit_map(_, _, _, _, _, _)

\* ValueVisitor::visit_map after next_value
visit_map_insert(visitor, expecting_amount, src, out, key, val) ==
    IF ~val.ok THEN val
    ELSE IF expecting_amount /\ key.v.v \notin Units(visitor)
    THEN Err("custom", val.index)
    ELSE visit_map(visitor, expecting_amount, key.compound, src, val.index,
                   IF expecting_amount THEN MapInsert(out, key.v.v, val.v)
                   ELSE ObjectInsert(out, key.v.v, val.v))

\* ValueVisitor::visit_map after next_key
visit_map_next(visitor, expecting_amount, src, out, key) ==
    IF ~key.ok THEN key
    ELSE IF ~key.v.some
    THEN Ok(IF expecting_amount THEN VAmount(out) ELSE VObject(out), key.index)
    ELSE visit_map_insert(visitor, expecting_amount, src, out, key,
            deserialize_any(IF expecting_amount THEN "Number" ELSE visitor, src, key.index))

\* ValueVisitor::visit_map
visit_map(visitor, expecting_amount, map, src, index, out) ==
    IF visitor \notin {"Value", "SimpleValue"} THEN Err("invalid type", index)
    ELSE visit_map_next(visitor, expecting_amount, src, out,
            next_key_seed(map, IF expecting_amount THEN "String" ELSE "Key", src, index))

\* a derived enum with a variant of each kind:
\* #[serde(deny_unknown_fields)]
\* enum ExampleEnum { A(bool), B { a: bool, b: bool }, C(bool, bool), U }
VariantA == <<"A">>

VariantB == <<"B">>

VariantC == <<"C">>

VariantU == <<"U">>

VARIANTS == {VariantA, VariantB, VariantC, VariantU}

FIELDS == {KeyA, KeyB}

VEnum(variant, payload) == [t |-> "Enum", variant |-> variant, payload |-> payload]

\* unit_variant that accepts a variant found after "the"
unit_variant_any(unit_access, index) == Ok(VNull, index)

\* VariantAccess::unit_variant and UnitVariantAccess::unit_variant
unit_variant(unit_access, index) ==
    IF unit_access THEN Ok(VNull, index) ELSE Err("ExpectedUnitVariant", index)

RECURSIVE example_visit_seq(_, _, _, _)

\* the derived visit_seq of the tuple variant after next_element
example_visit_seq_next(src, out, next) ==
    IF ~next.ok THEN next
    ELSE IF ~next.v.some THEN Err("invalid length", next.index)
    ELSE IF Len(out) = 1 THEN Ok(VEnum(VariantC, Append(out, next.v.v)), next.index)
    ELSE example_visit_seq(next.compound, src, next.index, Append(out, next.v.v))

\* the derived visit_seq of the tuple variant: it asks for two elements and
\* for no more
example_visit_seq(seq, src, index, out) ==
    example_visit_seq_next(src, out, next_element_seed(seq, "Bool", src, index))

RECURSIVE example_visit_map(_, _, _, _)

\* the derived visit_map of the struct variant after next_value
example_visit_map_insert(src, out, key, val) ==
    IF ~val.ok THEN val
    ELSE example_visit_map(key.compound, src, val.index, MapInsert(out, key.v.v, val.v))

\* the derived visit_map of the struct variant after next_key
example_visit_map_next(src, out, key) ==
    IF ~key.ok THEN key
    ELSE IF ~key.v.some
    THEN IF \A field \in FIELDS : MapGet(out, field).some
         THEN Ok(VEnum(VariantB, out), key.index)
         ELSE Err("missing field", key.index)
    ELSE IF key.v.v \notin FIELDS THEN Err("unknown field", key.index)
    ELSE IF MapGet(out, key.v.v).some THEN Err("duplicate field", key.index)
    ELSE example_visit_map_insert(src, out, key, deserialize_bool("Bool", src, key.index))

\* the derived visit_map of the struct variant
example_visit_map(map, src, index, out) ==
    example_visit_map_next(src, out, next_key_seed(map, "Identifier", src, index))

\* VariantAccess::newtype_variant_seed for the payload of variant A
example_newtype_variant(src, is_token) ==
    LET Wrap(payload) ==
            IF ~payload.ok THEN payload ELSE Ok(VEnum(VariantA, payload.v), payload.index)
    IN  IF ~is_token.ok THEN is_token
        ELSE Wrap(deserialize_bool("Bool", src, is_token.index))

\* the derived visit_enum once the variant is identified
example_variant(unit_access, src, index, key) ==
    LET Unit(unit) ==
            IF ~unit.ok THEN unit ELSE Ok(VEnum(VariantU, VNull), unit.index)
    IN  IF ~key.ok THEN key
        ELSE IF key.v \notin VARIANTS THEN Err("unknown variant", key.index)
        ELSE IF key.v = VariantU THEN Unit(unit_variant(unit_access, key.index))
        ELSE IF unit_access THEN Err("ExpectedUnitVariant", key.index)
        ELSE IF key.v = VariantA
        THEN example_newtype_variant(src, expect(expect(key, src, WHICH), src, IS))
        ELSE IF key.v = VariantC THEN example_visit_seq(DeCompound(None), src, index, <<>>)
        ELSE example_visit_map(DeCompound(Some(FIELDS)), src, index, <<>>)

\* the variant name read by variant_seed: after "the" for a VariantAccess
variant_seed(visitor, unit_access, expected_variants, src, index) ==
    LET the == IF unit_access THEN Ok(THE, index) ELSE parse_and_expect_token(src, index, THE)
    IN  IF ~the.ok THEN the
        ELSE expected_deserialize(visitor, expected_variants, src, the.index)

\* the derived visit_enum over a VariantAccess, or over a UnitVariantAccess
\* when the variant is a bare string
example_visit_enum(unit_access, src, index) ==
    example_variant(unit_access, src, index,
                    variant_seed("Identifier", unit_access, VARIANTS, src, index))

\* ValueVisitor::visit_enum: the payload of the custom variant
value_newtype_variant(visitor, src, is_token) ==
    LET Custom(custom) ==
            IF ~custom.ok THEN custom ELSE Ok(VCustom(custom.v), custom.index)
    IN  IF ~is_token.ok THEN is_token
        ELSE IF visitor = "SimpleValue" THEN Err("no custom object present", is_token.index)
        ELSE Custom(deserialize_any("SimpleValue", src, is_token.index))

\* ValueVisitor::visit_enum once the variant is identified
value_variant(visitor, unit_access, src, index, key) ==
    IF ~key.ok THEN key
    ELSE IF unit_access THEN Err("ExpectedUnitVariant", key.index)
    ELSE IF key.v = CUSTOM_VARIANT_NAME
    THEN value_newtype_variant(visitor, src, expect(expect(key, src, WHICH), src, IS))
    ELSE visit_map(visitor, key.v = AMOUNT_VARIANT_NAME, DeCompound(Some({})), src, index, <<>>)

\* ValueVisitor::visit_enum over a VariantAccess, or over a UnitVariantAccess
\* when the variant is a bare string
visit_enum(visitor, unit_access, src, index) ==
    IF visitor \notin {"Value", "SimpleValue"} THEN Err("invalid type", index)
    ELSE value_variant(visitor, unit_access, src, index,
                       variant_seed("String", unit_access, {}, src, index))

deserialize_enum(visitor, src, index) ==
    LET peek == peek_next(src, index)
    IN  IF ~peek.ok THEN peek
        ELSE IF peek.v = PToken(THE) \/ peek.v.p = "Str"
        THEN visit_enum(visitor, peek.v.p = "Str", src, index)
        ELSE Err("ExpectedKeyWord", index)

\* deserialize_enum with the derived visitor of ExampleEnum
example_deserialize_enum(src, index) ==
    LET peek == peek_next(src, index)
    IN  IF ~peek.ok THEN peek
        ELSE IF peek.v = PToken(THE) \/ peek.v.p = "Str"
        THEN example_visit_enum(peek.v.p = "Str", src, index)
        ELSE Err("ExpectedKeyWord", index)

\* deserialize_newtype_struct hands the deserializer back to the visitor: a
\* ValueVisitor calls deserialize_any again at the same index, without end
deserialize_newtype_struct(visitor, src, index) ==
    IF visitor \in {"Value", "SimpleValue"} THEN Err("StackOverflow", index)
    ELSE Err("invalid type", index)

\* deserialize_any of a described compound: a list or an object
visit_compound(visitor, src, compound) ==
    IF ~compound.ok THEN compound
    ELSE IF is_list(compound.v)
    THEN visit_seq(visitor, compound.v, src, compound.index, <<>>)
    ELSE visit_map(visitor, FALSE, compound.v, src, compound.index, <<>>)

deserialize_any(visitor, src, index) ==
    LET peek == peek_next(src, index)
        next == parse_next(src, index + 1)
        token == parse_token(src, index + 2)
    IN  IF ~peek.ok THEN peek
        ELSE IF peek.v.p = "Str" THEN deserialize_str(visitor, src, index)
        ELSE IF peek.v.p = "Number"
        THEN IF ParseI64(peek.v.c).some THEN deserialize_i64(visitor, src, index)
             ELSE deserialize_f64(visitor, src, index)
        ELSE IF peek.v.c \in TrueWords \cup FalseWords THEN deserialize_bool(visitor, src, index)
        ELSE IF peek.v.c \in {EMPTY, NOTHING} THEN deserialize_unit(visitor, src, index)
        ELSE IF peek.v.c # THE THEN Err("ExpectedKeyWord", index)
        ELSE IF ~next.ok THEN next
        ELSE IF next.v.p = "Str"
        THEN IF ~token.ok THEN token
             ELSE IF token.v = WHICH THEN deserialize_newtype_struct(visitor, src, index)
             ELSE deserialize_enum(visitor, src, index)
        ELSE visit_compound(visitor, src, describe(DeCompound(None), src, index))

\* helpers::from_str of a Value with the units of the currency
from_str(src) == deserialize_any("Value", src, 0)

\* helpers::from_str::<ExampleEnum>: the derived Deserialize calls deserialize_enum
from_str_enum(src) == example_deserialize_enum(src, 0)

\* PartialEq for Number makes a float equal to the integer of the same value
NormalNumber(num) ==
    IF num.n = "Float" /\ num.e = 0 THEN NInt(FloatInteger(num)) ELSE num

RECURSIVE Normal(_)
Normal(v) ==
    CASE v.t = "Number" -> VNumber(NormalNumber(v.n))
      [] v.t = "Array" -> VArray([i \in 1..Len(v.a) |-> Normal(v.a[i])])
      [] v.t = "Object" ->
            VObject([i \in 1..Len(v.o) |->
                Entry(IF v.o[i].key.k = "Number" THEN KNumber(NormalNumber(v.o[i].key.n))
                      ELSE v.o[i].key,
                      Normal(v.o[i].val))])
      [] v.t = "Amount" -> VAmount([i \in 1..Len(v.m) |-> Entry(v.m[i].key, Normal(v.m[i].val))])
      [] v.t = "Custom" -> VCustom(Normal(v.c))
      [] OTHER -> v

\* PartialEq for Value
ValueEq(a, b) == Normal(a) = Normal(b)
-----------------------------------------------------------------------------
(* Values written by to_string and read back by from_str *)

\* the number of lists and integers of a nested list
RECURSIVE Size(_)
Size(v) ==
    IF v.t # "Array" \/ v.a = <<>> THEN 1
    ELSE 1 + Size(Head(v.a)) + Size(VArray(Tail(v.a))) - 1

\* the sequences of integers and nested lists of at most n lists and integers
RECURSIVE Forests(_)
Forests(n) ==
    IF n = 0 THEN {<<>>}
    ELSE {<<>>} \cup UNION {{<<item>> \o rest : rest \in Forests(n - Size(item))} :
                            item \in {VNumber(NInt(0))} \cup {VArray(f) : f \in Forests(n - 1)}}

\* the integers of a nested list numbered 1, 2, 3, .. in reading order
RECURSIVE Numbered(_, _)
Numbered(v, from) ==
    IF v.t # "Array" THEN [v |-> VNumber(NInt(from)), next |-> from + 1]
    ELSE IF v.a = <<>> THEN [v |-> v, next |-> from]
    ELSE LET head == Numbered(Head(v.a), from)
             tail == Numbered(VArray(Tail(v.a)), head.next)
         IN  [v |-> VArray(<<head.v>> \o tail.v.a), next |-> tail.next]

NestedLists == {Numbered(VArray(f), 1).v : f \in Forests(MaxListNodes - 1)}

Dollars == <<"d", "o", "l", "l", "a", "r", "s">>
Euros == <<"e", "u", "r", "o", "s">>

CodecNumbers == {NInt(10), NInt(-20), NFloat(FALSE, 115, 1), NFloat(FALSE, 1, 0)}

CodecScalars ==
    {VNull, VBool(FALSE), VString(KeyA), VString(<<"a", BackTick, "b">>),
     VString(<<"1", "0", " ">> \o Euros)} \cup {VNumber(num) : num \in CodecNumbers}

CodecKeys ==
    {KString(KeyA), KString(<<"a", "_", "b">>), KString(<<"i", "s", " ", "a">>),
     KString(<<"a", BackTick>>), KBool(TRUE), KNumber(NInt(1))}

\* what the compounds of the mixed values hold
CodecItems ==
    {VNull, VString(KeyA), VNumber(NInt(1)), VArray(<<>>), VArray(<<VNumber(NInt(1))>>),
     VObject(<<>>), VObject(<<Entry(KString(KeyA), VNull)>>)}

CodecArrays == {VArray(items) : items \in UNION {[1..n -> CodecItems] : n \in 1..2}}

CodecObjects ==
    {VObject(<<Entry(key, val)>>) : key \in CodecKeys, val \in CodecItems}
        \cup {VObject(ObjectInsert(<<Entry(pair[1], pair[3])>>, pair[2], pair[4])) :
                pair \in {p \in CodecKeys \X CodecKeys \X CodecItems \X CodecItems :
                            KeyLess(p[1], p[2])}}

CodecAmounts ==
    {VAmount(<<>>)}
        \cup {VAmount(<<Entry(unit, VNumber(num))>>) : unit \in UnitNames, num \in CodecNumbers}
        \cup {VAmount(<<Entry(Dollars, VNumber(a)), Entry(Euros, VNumber(b))>>) :
                a \in CodecNumbers, b \in CodecNumbers}

CodecCustoms == {VCustom(inner) : inner \in {VNull, VNumber(NInt(10)), VString(KeyA)}}

CodecValues ==
    NestedLists \cup CodecScalars \cup CodecItems \cup CodecArrays \cup CodecObjects
        \cup CodecAmounts \cup CodecCustoms

NotWritten == [ok |-> FALSE, err |-> "not written"]

NotRead == Err("not read", 0)

CodecInit ==
    /\ ser_value \in CodecValues
    /\ ser_ret = NotWritten
    /\ from_ret = NotRead
    /\ codec_pc = "start"

\* the characters of the texts of map keys
KeyChars == {"a", "A", "_", " ", BackTick}

KeyTexts == UNION {[1..n -> KeyChars] : n \in 0..MaxKeyLen}

\* map keys of the types a serde map can have: strings, bools, numbers, the
\* unit, lists and maps
KeyNames ==
    {KString(text) : text \in KeyTexts}
        \cup {KBool(TRUE), KBool(FALSE), VNull}
        \cup {KNumber(num) : num \in CodecNumbers}
        \cup {VArray(<<>>), VArray(<<VString(KeyA)>>), VObject(<<>>),
              VObject(<<Entry(KString(KeyA), VNull)>>)}

\* maps of one entry
KeyedMaps ==
    {VObject(<<Entry(key, val)>>) :
        key \in KeyNames, val \in {VNull, VArray(<<VNumber(NInt(1))>>)}}

KeysInit ==
    /\ ser_value \in KeyedMaps
    /\ ser_ret = NotWritten
    /\ from_ret = NotRead
    /\ codec_pc = "start"

\* to_string(&value)
CallToString ==
    /\ codec_pc = "start"
    /\ ser_ret' = to_string(ser_value)
    /\ codec_pc' = "written"
    /\ UNCHANGED <<ser_value, from_ret>>
    /\ UNCHANGED <<nloq_vars, acc_vars, de_vars>>

\* from_str::<Value<Currency, SimpleValue>>(&sentence) of the written sentence
CallFromStr ==
    /\ codec_pc = "written"
    /\ ser_ret.ok
    /\ from_ret' = from_str(ser_ret.v)
    /\ codec_pc' = "read"
    /\ UNCHANGED <<ser_value, ser_ret>>
    /\ UNCHANGED <<nloq_vars, acc_vars, de_vars>>

CodecNext == CallToString \/ CallFromStr

-----------------------------------------------------------------------------
(* Sentences that are fed to from_str *)

\* a back-tick string literal
Tick(text) == Str(BackTick, text)

\* the aliases a compound declares and an entry names
ScopeNames == {KeyA, KeyB}

Scopes == {None} \cup {Some(name) : name \in ScopeNames}

CompoundHead(kind, declared) ==
    <<Tok(THE), Tok(kind)>>
        \o (IF declared.some THEN <<Tok(HENCEFORTH), Tick(declared.v)>> ELSE <<>>)
        \o <<Tok(WHERE)>>

OfClause(of) == IF of.some THEN <<Tok(OF), Tick(of.v)>> ELSE <<>>

ListEntry(first, of, val) ==
    (IF first THEN <<Tok(AN)>> ELSE <<Tok(AND), Tok(ANOTHER)>>)
        \o <<Tok(ITEM)>> \o OfClause(of) \o <<Tok(IS)>> \o val

ObjectEntry(first, the, key, of, val) ==
    (IF first THEN <<>> ELSE <<Tok(AND)>>) \o (IF the THEN <<Tok(THE)>> ELSE <<>>)
        \o <<Tick(key)>> \o OfClause(of) \o <<Tok(IS)>> \o val

One == <<Tok(<<"1">>)>>

Two == <<Tok(<<"2">>)>>

\* a compound of one entry, which may name a scope
InnerCompounds ==
    {CompoundHead(LIST, None) \o ListEntry(TRUE, of, One) : of \in Scopes}
        \cup {CompoundHead(OBJECT, None) \o ObjectEntry(TRUE, TRUE, KeyA, of, One) :
                of \in Scopes}

EntryTexts == {One, <<Tick(KeyA)>>} \cup InnerCompounds

\* lists and objects whose first entry may name a scope, declared or not
ScopedSentences ==
    {CompoundHead(LIST, declared) \o ListEntry(TRUE, of, val) \o more :
        declared \in Scopes, of \in Scopes, val \in EntryTexts,
        more \in {<<>>, ListEntry(FALSE, None, Two)}}
    \cup
    {CompoundHead(OBJECT, declared) \o ObjectEntry(TRUE, the, KeyA, of, val) \o more :
        declared \in Scopes, of \in Scopes, val \in EntryTexts, the \in BOOLEAN,
        more \in {<<>>, ObjectEntry(FALSE, TRUE, KeyB, None, Two)}}

\* the names a sentence gives to a variant: humanized, as declared, unknown
VariantNames == {<<"a">>, <<"b">>, <<"c">>, <<"u">>, VariantA, <<"a", "b">>}

BoolTexts == {<<Tok(<<"t", "r", "u", "e">>)>>, <<Tok(<<"o", "f", "f">>)>>}

PayloadTexts == BoolTexts \cup {One}

UnitForm(name) == <<Tick(name)>>

NewtypeForm(name, val) == <<Tok(THE), Tick(name), Tok(WHICH), Tok(IS)>> \o val

RECURSIVE Items(_, _)
Items(vals, first) ==
    IF vals = <<>> THEN <<>>
    ELSE ListEntry(first, None, Head(vals)) \o Items(Tail(vals), FALSE)

TupleForm(name, vals) == <<Tok(THE), Tick(name), Tok(WHERE)>> \o Items(vals, TRUE)

RECURSIVE Fields(_, _, _, _)
Fields(fields, vals, the, first) ==
    IF fields = <<>> THEN <<>>
    ELSE ObjectEntry(first, the, Head(fields), None, Head(vals))
            \o Fields(Tail(fields), Tail(vals), the, FALSE)

StructForm(name, the, fields, vals) ==
    <<Tok(THE), Tick(name), Tok(WHERE)>> \o Fields(fields, vals, the, TRUE)

FieldLists == {<<KeyA>>, <<KeyA, KeyB>>, <<KeyB, KeyA>>, <<KeyA, KeyA>>,
               <<KeyA, <<"c">>, KeyB>>}

\* a variant in each of the four forms, and the name after "the" alone
EnumSentences ==
    {UnitForm(name) : name \in VariantNames}
    \cup {<<Tok(THE), Tick(name)>> : name \in VariantNames}
    \cup {NewtypeForm(name, val) : name \in VariantNames, val \in PayloadTexts}
    \cup {TupleForm(name, vals) : name \in VariantNames,
            vals \in {<<first>> : first \in BoolTexts}
                        \cup {<<first, second>> : first \in PayloadTexts, second \in PayloadTexts}
                        \cup {<<first, first, first>> : first \in BoolTexts}}
    \cup {StructForm(name, the, fields, [i \in 1..Len(fields) |-> val]) :
            name \in VariantNames, the \in BOOLEAN, fields \in FieldLists,
            val \in PayloadTexts}

Sentences == ScopedSentences \cup EnumSentences

SentenceInit ==
    /\ de_src \in Sentences
    /\ de_index = 0
    /\ de_lit = NoLiteral /\ de_stack = <<>>
    /\ de_call = NoCall
    /\ de_ret = None
    /\ de_pc = "ready"

\* from_str::<Value<Currency, SimpleValue>>(sentence)
DeFromStr ==
    /\ de_pc = "ready"
    /\ LET Return(res) ==
               /\ de_ret' = [ok |-> res.ok, v |-> IF res.ok THEN res.v ELSE VNull,
                             err |-> IF res.ok THEN "" ELSE res.err]
               /\ de_index' = res.index
       IN  Return(from_str(de_src))
    /\ de_call' = [fn |-> "from_str"]
    /\ de_pc' = "returned"
    /\ UNCHANGED <<de_src, de_lit, de_stack>>
    /\ UNCHANGED <<nloq_vars, acc_vars, codec_vars>>

\* from_str::<ExampleEnum>(sentence)
DeFromStrEnum ==
    /\ de_pc = "ready"
    /\ LET Return(res) ==
               /\ de_ret' = [ok |-> res.ok, v |-> IF res.ok THEN res.v ELSE VNull,
                             err |-> IF res.ok THEN "" ELSE res.err]
               /\ de_index' = res.index
       IN  Return(from_str_enum(de_src))
    /\ de_call' = [fn |-> "from_str_enum"]
    /\ de_pc' = "returned"
    /\ UNCHANGED <<de_src, de_lit, de_stack>>
    /\ UNCHANGED <<nloq_vars, acc_vars, codec_vars>>

SentenceNext == DeFromStr \/ DeFromStrEnum

-----------------------------------------------------------------------------
(* The character parser: src/src/parser.rs, and the cursor of the
   Deserializer over it: src/src/de.rs *)

DoubleQuote == "QUOTE"
Apostrophe == "APOSTROPHE"

\* the characters the enumerated inputs are written with
TextChars == {" ", "a", "1", BackTick, DoubleQuote, Apostrophe, BackSlash}

RECURSIVE TextsOf(_)
TextsOf(n) ==
    IF n = 0 THEN {<<>>}
    ELSE LET shorter == TextsOf(n - 1)
         IN  shorter \cup {t \o <<c>> : t \in {s \in shorter : Len(s) = n - 1}, c \in TextChars}

Texts == TextsOf(MaxTextLen)

\* &src[from..]
SliceFrom(src, from) == SubSeq(src, from + 1, Len(src))

\* &src[from..to]
Slice(src, from, to) == SubSeq(src, from + 1, to)

\* src.chars().enumerate().find(..) from a position on: the offset of the
\* first character that is whitespace (white) or is not (~white), or -1
FindFrom(src, from, white) ==
    LET found == {i \in from..(Len(src) - 1) : IsWhitespace(src[i + 1]) = white}
    IN  IF found = {} THEN 0 - 1 ELSE CHOOSE i \in found : \A j \in found : i <= j

Parsed3(index, res, rest) == [ok |-> TRUE, index |-> index, res |-> res, rest |-> rest]

ParseError(err, index) == [ok |-> FALSE, err |-> err, index |-> index]

UnexpectedEof == ParseError("UnexpectedEof", 0)

parser_parse_token(src) ==
    LET t_start == FindFrom(src, 0, FALSE)
        t_end == IF t_start < 0 THEN 0 - 1 ELSE FindFrom(src, t_start + 1, TRUE)
        end == IF t_end < 0 THEN 0 - 1 ELSE FindFrom(src, t_end + 1, FALSE)
    IN  IF t_start < 0 THEN UnexpectedEof
        ELSE Parsed3(t_start,
                     Slice(src, t_start, IF t_end < 0 THEN Len(src) ELSE t_end),
                     IF end < 0 THEN <<>> ELSE SliceFrom(src, end))

DelimitedStart ==
    [s_start |-> 0 - 1, s_end |-> 0 - 1, end |-> 0 - 1, was_start_char |-> FALSE,
     was_end_char |-> FALSE, was_escape_char |-> FALSE, err |-> UnexpectedEof, failed |-> FALSE]

\* a delimiter closes the literal whether a backslash precedes it or not
is_end_char(was_escape_char, c, end_char) == c = end_char

\* !was_escape_char && c == end_char
is_closing(was_escape_char, c, end_char) == ~was_escape_char /\ c = end_char

\* one turn of the loop of parse_delimited on the character c at offset i;
\* done tells that the loop is left
DelimitedStep(st, i, c, start_char, end_char, escape_char) ==
    LET started == IF st.s_start < 0 /\ st.was_start_char
                   THEN [st EXCEPT !.s_start = i, !.was_start_char = FALSE]
                   ELSE st
    IN  IF started.s_start < 0
        THEN IF c = start_char THEN [st |-> [st EXCEPT !.was_start_char = TRUE], done |-> FALSE]
             ELSE IF IsWhitespace(c) THEN [st |-> st, done |-> FALSE]
             ELSE [st |-> [st EXCEPT !.failed = TRUE, !.err = ParseError("InvalidString", i)],
                   done |-> TRUE]
        ELSE IF started.s_end < 0
        THEN IF is_closing(started.was_escape_char, c, end_char)
             THEN [st |-> [started EXCEPT !.s_end = i, !.was_end_char = TRUE,
                                          !.was_escape_char = FALSE],
                   done |-> FALSE]
             ELSE [st |-> [started EXCEPT !.was_escape_char = (c = escape_char)], done |-> FALSE]
        ELSE IF ~IsWhitespace(c)
        THEN IF started.was_end_char
             THEN [st |-> [started EXCEPT !.failed = TRUE,
                                          !.err = ParseError("ExpectedWhitespace", i)],
                   done |-> TRUE]
             ELSE [st |-> [started EXCEPT !.end = i], done |-> TRUE]
        ELSE [st |-> [started EXCEPT !.was_end_char = FALSE], done |-> FALSE]

RECURSIVE DelimitedLoop(_, _, _, _, _, _)
DelimitedLoop(src, i, st, start_char, end_char, escape_char) ==
    IF i >= Len(src) THEN st
    ELSE LET turn == DelimitedStep(st, i, src[i + 1], start_char, end_char, escape_char)
         IN  IF turn.done THEN turn.st
             ELSE DelimitedLoop(src, i + 1, turn.st, start_char, end_char, escape_char)

parser_parse_delimited(src, start_char, end_char, escape_char) ==
    LET st == DelimitedLoop(src, 0, DelimitedStart, start_char, end_char, escape_char)
    IN  IF st.failed THEN st.err
        ELSE IF st.s_start < 0 \/ st.s_end < 0 THEN UnexpectedEof
        ELSE Parsed3(st.s_start, Slice(src, st.s_start, st.s_end),
                     IF st.end < 0 THEN <<>> ELSE SliceFrom(src, st.end))

Delimiters == {Apostrophe, BackTick, DoubleQuote}

\* .map(|(index, res, rest)| (index + s_start, res, rest)): an Err is passed on
\* as it is
map_index(result, s_start) ==
    IF result.ok THEN Parsed3(result.index + s_start, result.res, result.rest) ELSE result

parser_parse_string(src) ==
    LET s_start == FindFrom(src, 0, FALSE)
    IN  IF s_start < 0 THEN UnexpectedEof
        ELSE IF src[s_start + 1] \notin Delimiters THEN ParseError("InvalidString", s_start)
        ELSE map_index(parser_parse_delimited(SliceFrom(src, s_start), src[s_start + 1],
                                              src[s_start + 1], BackSlash),
                       s_start)

parser_parse_number(src) ==
    LET parsed == parser_parse_token(src)
    IN  IF ~parsed.ok THEN parsed
        ELSE IF IsNumberText(parsed.res) THEN parsed
        ELSE ParseError("InvalidNumber", parsed.index)

IndexedErrors == {"InvalidString", "InvalidNumber", "ExpectedWhitespace"}

inc_err_index(self_index, err) ==
    IF err.err \in IndexedErrors THEN ParseError(err.err, err.index + self_index) ELSE err

\* the value handed back and the cursor afterwards
inc_parse_result(self_src, self_index, result) ==
    IF ~result.ok
    THEN [ok |-> FALSE, v |-> <<>>, err |-> inc_err_index(self_index, result).err,
          at |-> inc_err_index(self_index, result).index, index |-> self_index]
    ELSE [ok |-> TRUE, v |-> result.res, err |-> "", at |-> 0,
          index |-> self_index + (Len(SliceFrom(self_src, self_index)) - Len(result.rest))]

\* visitor.visit_string(unescape_str(self.parse_string()?).into_owned())
deserialize_string(self_src, self_index) ==
    LET parsed == inc_parse_result(self_src, self_index,
                                   parser_parse_string(SliceFrom(self_src, self_index)))
    IN  IF parsed.ok THEN [parsed EXCEPT !.v = unescape_str(parsed.v)] ELSE parsed

\* a Deserializer over a text, its cursor at the start
TextInit ==
    /\ de_src \in Texts
    /\ de_index = 0 /\ de_lit = NoLiteral /\ de_stack = <<>> /\ de_call = NoCall
    /\ de_ret = None /\ de_pc = "ready"

TextReturn(fn, result) ==
    /\ de_call' = [fn |-> fn, index |-> de_index]
    /\ de_ret' = [ok |-> result.ok, v |-> result.v, err |-> result.err, at |-> result.at]
    /\ de_index' = result.index
    /\ UNCHANGED <<de_src, de_lit, de_stack>>
    /\ UNCHANGED <<nloq_vars, acc_vars, codec_vars>>

\* Deserializer::parse_token: a fragment is consumed and the decoder goes on
DeParseToken ==
    /\ de_pc = "ready"
    /\ TextReturn("parse_token",
                  inc_parse_result(de_src, de_index, parser_parse_token(SliceFrom(de_src, de_index))))
    /\ de_pc' = IF de_ret'.ok THEN "ready" ELSE "returned"

\* Deserializer::parse_string
DeParseString ==
    /\ de_pc = "ready"
    /\ TextReturn("parse_string",
                  inc_parse_result(de_src, de_index, parser_parse_string(SliceFrom(de_src, de_index))))
    /\ de_pc' = "returned"

\* Deserializer::parse_number
DeParseNumber ==
    /\ de_pc = "ready"
    /\ TextReturn("parse_number",
                  inc_parse_result(de_src, de_index, parser_parse_number(SliceFrom(de_src, de_index))))
    /\ de_pc' = "returned"

\* String::deserialize(&mut deserializer)
DeDeserializeString ==
    /\ de_pc = "ready"
    /\ TextReturn("deserialize_string", deserialize_string(de_src, de_index))
    /\ de_pc' = "returned"

TextNext == DeParseToken \/ DeParseString \/ DeParseNumber \/ DeDeserializeString

-----------------------------------------------------------------------------
(* Names of fields and variants: written by humanize, read back by
   dehumanize_match *)

NameChars == {"a", "b", "A", "B", "_"}

NameTexts == UNION {[1..n -> NameChars] : n \in 1..MaxNameLen}

IsLetter(ch) == ch # "_"

\* lower-case words joined by single underscores
IsSnakeCase(id) ==
    /\ \A i \in 1..Len(id) : id[i] \notin Uppercase
    /\ id[1] # "_" /\ id[Len(id)] # "_"
    /\ \A i \in 1..(Len(id) - 1) : ~(id[i] = "_" /\ id[i + 1] = "_")

\* letters only, the first one in lower case
IsCamelCase(id) == (\A i \in 1..Len(id) : IsLetter(id[i])) /\ id[1] \notin Uppercase

\* letters only, the first one in upper case
IsUpperCamelCase(id) == (\A i \in 1..Len(id) : IsLetter(id[i])) /\ id[1] \in Uppercase

Identifiers == {id \in NameTexts : IsSnakeCase(id) \/ IsCamelCase(id) \/ IsUpperCamelCase(id)}

\* a field or variant name about to be written
NamesInit ==
    /\ de_src \in {<<Tok(id)>> : id \in Identifiers}
    /\ de_index = 0 /\ de_lit = NoLiteral /\ de_stack = <<>> /\ de_call = NoCall
    /\ de_ret = None /\ de_pc = "ready"

\* the serializer writes the name: humanize(key)
HumanizeName ==
    /\ de_pc = "ready"
    /\ de_call' = [fn |-> "humanize"]
    /\ de_ret' = Some(humanize(de_src[1].c))
    /\ de_pc' = "humanized"
    /\ UNCHANGED <<de_src, de_index, de_lit, de_stack>>
    /\ UNCHANGED <<nloq_vars, acc_vars, codec_vars>>

\* the other spellings of the words of a name
Spellings(id) ==
    {other \in Identifiers :
        other \in {humanize(id), dehumanize_snake(humanize(id)), dehumanize_camel(humanize(id))}}

\* the decoder reads the written name against the names the type declares:
\* the name itself, alone or with another spelling of the same words
DehumanizeMatch ==
    /\ de_pc = "humanized"
    /\ \E candidates \in {{de_src[1].c}} \cup {{de_src[1].c, other} : other \in Spellings(de_src[1].c)} :
        /\ de_call' = [fn |-> "dehumanize_match", candidates |-> candidates]
        /\ de_ret' = dehumanize_match(de_ret.v, candidates)
    /\ de_pc' = "returned"
    /\ UNCHANGED <<de_src, de_index, de_lit, de_stack>>
    /\ UNCHANGED <<nloq_vars, acc_vars, codec_vars>>

NamesNext == HumanizeName \/ DehumanizeMatch

-----------------------------------------------------------------------------
(* Equality and hash of nlsd_value::Number: src/value/src/number.rs *)

\* bit p (bit 0 is the lowest) of a natural number below 2^31
Bit(n, p) == IF p > 30 THEN 0 ELSE (n \div Pow(2, p)) % 2

\* the position of the highest bit that is set in a positive number
HighBit(n) == CHOOSE p \in 0..30 : n \div Pow(2, p) = 1

\* the 64 bits of an i64, highest first (two's complement)
write_i64(n) ==
    [i \in 1..64 |-> IF n >= 0 THEN Bit(n, 64 - i) ELSE 1 - Bit((0 - n) - 1, 64 - i)]

\* a float of the model in quarters: m / 10^e = FloatQuarters / 4
FloatQuarters(num) == (num.m * 4) \div Pow(10, num.e)

\* f64::to_bits of a multiple of 1/4: the sign, the 11 bits of the biased
\* exponent and the 52 bits of the fraction, highest first
to_bits(num) ==
    LET quarters == FloatQuarters(num)
        high == IF quarters = 0 THEN 0 ELSE HighBit(quarters)
        biased == IF quarters = 0 THEN 0 ELSE 1023 + high - 2
    IN  [i \in 1..64 |->
            IF i = 1 THEN (IF num.neg THEN 1 ELSE 0)
            ELSE IF i <= 12 THEN Bit(biased, 12 - i)
            ELSE IF i - 12 <= high THEN Bit(quarters, high - (i - 12))
            ELSE 0]

\* Hash for Number: what is written to the hasher
number_hash(num) == IF num.n = "Integer" THEN write_i64(num.v) ELSE to_bits(num)

\* `left as f64 == right` and `left == right` of two f64
number_eq(a, b) ==
    IF a.n = "Integer" /\ b.n = "Integer" THEN a.v = b.v
    ELSE IF a.n = "Integer" THEN b.e = 0 /\ FloatInteger(b) = a.v
    ELSE IF b.n = "Integer" THEN a.e = 0 /\ FloatInteger(a) = b.v
    ELSE a.m = b.m /\ a.e = b.e /\ (a.neg = b.neg \/ a.m = 0)

\* the numbers that are hashed: integers, and floats that are multiples of 1/4
HashedNumbers ==
    {NInt(v) : v \in (0 - MaxHashed)..MaxHashed}
        \cup {NFloat(neg, m, 0) : neg \in BOOLEAN, m \in 0..MaxHashed}
        \cup {NFloat(neg, 10 * w + 5, 1) : neg \in BOOLEAN, w \in 0..MaxHashed}
        \cup {NFloat(neg, 100 * w + q, 2) : neg \in BOOLEAN, w \in 0..MaxHashed, q \in {25, 75}}

\* two numbers held as keys
HashInit ==
    /\ ser_value \in {VArray(<<VNumber(a), VNumber(b)>>) : a, b \in HashedNumbers}
    /\ ser_ret = NotWritten
    /\ from_ret = NotRead
    /\ codec_pc = "keys"

\* a == b
NumberEq ==
    /\ codec_pc = "keys"
    /\ from_ret' = [eq |-> number_eq(ser_value.a[1].n, ser_value.a[2].n)]
    /\ codec_pc' = "compared"
    /\ UNCHANGED <<ser_value, ser_ret>>
    /\ UNCHANGED <<nloq_vars, acc_vars, de_vars>>

\* a.hash(&mut hasher) and b.hash(&mut hasher), each with a fresh hasher
NumberHash ==
    /\ codec_pc = "compared"
    /\ ser_ret' = [written |-> <<number_hash(ser_value.a[1].n), number_hash(ser_value.a[2].n)>>]
    /\ codec_pc' = "hashed"
    /\ UNCHANGED <<ser_value, from_ret>>
    /\ UNCHANGED <<nloq_vars, acc_vars, de_vars>>

HashNext == NumberEq \/ NumberHash

-----------------------------------------------------------------------------
(* The calls that deserialize_any of a Value makes on a newtype form, one
   call at a time: src/src/de.rs 172-212 and 484-493, and the visitor of a
   Value, src/value/src/de.rs 59-64 *)

\* a call that has not returned: the function, the visitor it was given and
\* the cursor when it was entered
Frame(fn, visitor, index) == [fn |-> fn, visitor |-> visitor, index |-> index]

\* the payloads of the newtype forms
AnyPayloads == PayloadTexts \cup {<<Tick(KeyA)>>} \cup InnerCompounds

\* newtype forms, the custom tag among the names, and sentences that are not
AnySentences ==
    {NewtypeForm(name, val) : name \in VariantNames \cup {CUSTOM_VARIANT_NAME},
                              val \in AnyPayloads}
        \cup PayloadTexts
        \cup {<<Tok(THE), Tick(KeyA)>>, <<Tok(THE), Tick(KeyA), Tok(WHICH)>>}

AnyInit ==
    /\ de_src \in AnySentences
    /\ de_index = 0 /\ de_lit = NoLiteral /\ de_stack = <<>> /\ de_call = NoCall
    /\ de_ret = None /\ de_pc = "deserialize_any"

\* the arm of deserialize_any for "the", a string and "which"
is_newtype(src, index) ==
    LET peek == peek_next(src, index)
        next == parse_next(src, index + 1)
        token == parse_token(src, index + 2)
    IN  /\ peek.ok /\ peek.v = PToken(THE)
        /\ next.ok /\ next.v.p = "Str"
        /\ token.ok /\ token.v = WHICH

\* a call enters: its frame is pushed
Enter(fn, pc) ==
    /\ Len(de_stack) < MaxDepth
    /\ de_stack' = Append(de_stack, Frame(fn, "Value", de_index))
    /\ de_call' = [fn |-> fn]
    /\ de_pc' = pc

\* a call returns to from_str, and with it every call that waits for it
AnyReturn(res) ==
    /\ de_ret' = [ok |-> res.ok, v |-> IF res.ok THEN res.v ELSE VNull,
                  err |-> IF res.ok THEN "" ELSE res.err]
    /\ de_index' = res.index
    /\ de_stack' = <<>>
    /\ de_call' = [fn |-> "deserialize_any"]
    /\ de_pc' = "returned"

\* deserialize_any(visitor): the newtype arm rolls the cursor back to
\* start_index and calls deserialize_newtype_struct, every other arm returns
\* and with it every call that waits for it
DeDeserializeAny ==
    /\ de_pc = "deserialize_any"
    /\ IF is_newtype(de_src, de_index)
       THEN /\ Enter("deserialize_any", "deserialize_newtype_struct")
            /\ UNCHANGED <<de_index, de_ret>>
       ELSE AnyReturn(deserialize_any("Value", de_src, de_index))
    /\ UNCHANGED <<de_src, de_lit>>
    /\ UNCHANGED <<nloq_vars, acc_vars, codec_vars>>

\* deserialize_newtype_struct(_, visitor): visitor.visit_newtype_struct(self)
DeDeserializeNewtypeStruct ==
    /\ de_pc = "deserialize_newtype_struct"
    /\ Enter("deserialize_newtype_struct", "visit_newtype_struct")
    /\ UNCHANGED <<de_src, de_index, de_lit, de_ret>>
    /\ UNCHANGED <<nloq_vars, acc_vars, codec_vars>>

\* ValueVisitor::visit_newtype_struct(deserializer): deserializer.deserialize_any(self)
ValueVisitNewtypeStruct ==
    /\ de_pc = "visit_newtype_struct"
    /\ Enter("visit_newtype_struct", "deserialize_any")
    /\ UNCHANGED <<de_src, de_index, de_lit, de_ret>>
    /\ UNCHANGED <<nloq_vars, acc_vars, codec_vars>>

AnyNext == DeDeserializeAny \/ DeDeserializeNewtypeStruct \/ ValueVisitNewtypeStruct

-----------------------------------------------------------------------------
(* A compound read one request at a time: the visitor of a Value holds the
   Compound and asks it for its entries, src/src/de.rs 172-212, 502-533,
   724-912 and 925-986 *)

\* the name of a compound: a keyword or a string
HeadNames == {Tok(LIST), Tok(OBJECT), Tick(KeyB)}

\* "the [empty] <NAME> [henceforth <alias>] [where]"
HeadOf(name, empty, declared) ==
    <<Tok(THE)>> \o (IF empty THEN <<Tok(EMPTY)>> ELSE <<>>) \o <<name>>
        \o (IF declared.some THEN <<Tok(HENCEFORTH), Tick(declared.v)>> ELSE <<>>)
        \o (IF empty THEN <<>> ELSE <<Tok(WHERE)>>)

\* a compound of one entry that declares no alias
InnerList == CompoundHead(LIST, None) \o ListEntry(TRUE, None, One)

InnerObject == CompoundHead(OBJECT, None) \o ObjectEntry(TRUE, TRUE, KeyA, None, One)

\* first entries: of a list, of an object with a string, a number and a
\* keyword as the key, with a compound as the value, and one that starts
\* with another token
FirstEntries ==
    {ListEntry(TRUE, None, val) : val \in {One, InnerList, InnerObject}}
        \cup {ObjectEntry(TRUE, the, KeyA, None, val) :
                the \in BOOLEAN, val \in {One, InnerList, InnerObject}}
        \cup {One \o <<Tok(IS)>> \o Two,
              <<Tok(<<"t", "r", "u", "e">>), Tok(IS)>> \o Two,
              <<Tok(ITEM), Tok(IS)>> \o Two}

\* what follows the first entry: nothing, or one more entry in either form
MoreEntries ==
    {<<>>}
        \cup {ListEntry(FALSE, of, Two) : of \in Scopes}
        \cup {ObjectEntry(FALSE, the, KeyB, of, Two) : the \in BOOLEAN, of \in Scopes}

CompoundSentences ==
    {HeadOf(name, TRUE, declared) : name \in HeadNames, declared \in Scopes}
        \cup {HeadOf(name, FALSE, declared) \o first \o more :
                name \in HeadNames, declared \in Scopes, first \in FirstEntries,
                more \in MoreEntries}

CompoundInit ==
    /\ de_src \in CompoundSentences \cup EnumSentences
    /\ de_index = 0 /\ de_lit = NoLiteral /\ de_stack = <<>> /\ de_call = NoCall
    /\ de_ret = None /\ de_pc = "ready"

\* the visitor holds a Compound: visit_seq or visit_map has been called, for
\* entries and keys that the given seeds read
Visiting(fn, compound, index, seed, key) ==
    [fn |-> fn, visitor |-> seed, key |-> key, index |-> index, compound |-> compound]

\* where the cursor was when the call restored it, if it did
Rolled(res) == IF res.ok /\ "rolled" \in DOMAIN res THEN Some(res.rolled) ELSE None

\* what a call leaves behind: the cursor it started from, the offset it
\* restored the cursor to and the cursor before that, if it rolled back
Called(fn, restored, rolled) ==
    [fn |-> fn, index |-> de_index, restored |-> restored, rolled |-> rolled]

\* deserialize_seq(visitor): visitor.visit_seq(Compound::new(self))
DeDeserializeSeq ==
    /\ de_pc = "ready"
    /\ de_stack' = <<Visiting("visit_seq", DeCompound(None), de_index, "Value", "Key")>>
    /\ de_call' = Called("deserialize_seq", de_index, None)
    /\ de_pc' = "visit_seq"
    /\ UNCHANGED <<de_src, de_index, de_lit, de_ret>>
    /\ UNCHANGED <<nloq_vars, acc_vars, codec_vars>>

\* deserialize_map(visitor): visitor.visit_map(Compound::new(self))
DeDeserializeMap ==
    /\ de_pc = "ready"
    /\ de_stack' = <<Visiting("visit_map", DeCompound(None), de_index, "Value", "Key")>>
    /\ de_call' = Called("deserialize_map", de_index, None)
    /\ de_pc' = "visit_map"
    /\ UNCHANGED <<de_src, de_index, de_lit, de_ret>>
    /\ UNCHANGED <<nloq_vars, acc_vars, codec_vars>>

\* the sentence at the cursor starts with "the" and a keyword: the arm of
\* deserialize_any that describes a compound
IsDescribed(src, index) ==
    /\ peek_next(src, index) = Ok(PToken(THE), index)
    /\ parse_next(src, index + 1).ok
    /\ parse_next(src, index + 1).v.p # "Str"

\* the cursor before deserialize_any restored it, on a sentence that starts
\* with "the" and a string: after the token that follows the string
NamedCursor(src, index) ==
    IF /\ peek_next(src, index) = Ok(PToken(THE), index)
       /\ parse_next(src, index + 1).ok
       /\ parse_token(src, index + 2).ok
    THEN Some(parse_token(src, index + 2).index)
    ELSE None

\* deserialize_any after "the" and a keyword: the cursor is restored, the
\* compound is described and handed to visit_seq or to visit_map
AnyDescribed(next) ==
    /\ de_call' = Called("deserialize_any", de_index, Some(next.index))
    /\ de_index' = de_ret'.index
    /\ de_stack' =
            IF ~de_ret'.ok THEN <<>>
            ELSE <<Visiting(IF is_list(de_ret'.v) THEN "visit_seq" ELSE "visit_map",
                            de_ret'.v, de_index, "Value", "Key")>>
    /\ de_pc' = IF ~de_ret'.ok THEN "failed"
                ELSE IF is_list(de_ret'.v) THEN "visit_seq" ELSE "visit_map"

\* the value has been read: for the program, or for the entry of a map
ValueRead ==
    /\ de_call' = IF de_pc = "ready"
                  THEN Called("deserialize_any", de_index, NamedCursor(de_src, de_index))
                  ELSE Called("next_value_seed", de_ret'.index, None)
    /\ de_index' = de_ret'.index
    /\ de_stack' = IF de_pc = "next_value" /\ de_ret'.ok THEN de_stack ELSE <<>>
    /\ de_pc' = IF ~de_ret'.ok THEN "failed"
                ELSE IF de_pc = "next_value" THEN "visit_map" ELSE "ended"

\* seed.deserialize(&mut *self.de), which for a Value is deserialize_any:
\* called by the program on the whole sentence, and by next_value_seed for
\* the value of an entry. On "the" and a keyword deserialize_any restores
\* the cursor, describes the compound and calls the visitor; every other
\* sentence it reads to the end
DeserializeValue ==
    /\ de_pc \in {"ready", "next_value"}
    /\ IF de_pc = "ready" /\ IsDescribed(de_src, de_index)
       THEN /\ de_ret' = describe(DeCompound(None), de_src, de_index)
            /\ AnyDescribed(parse_next(de_src, de_index + 1))
       ELSE /\ de_ret' = seed_deserialize(IF de_pc = "ready" THEN "Value"
                                          ELSE de_stack[1].visitor, de_src, de_index)
            /\ ValueRead
    /\ UNCHANGED <<de_src, de_lit>>
    /\ UNCHANGED <<nloq_vars, acc_vars, codec_vars>>

\* a request of the visitor has returned: an entry, the end of the compound
\* or an error
Requested(fn, more) ==
    /\ de_call' = Called(fn, de_ret'.index, Rolled(de_ret'))
    /\ de_index' = de_ret'.index
    /\ de_stack' = IF de_ret'.ok /\ de_ret'.v.some
                   THEN <<[de_stack[1] EXCEPT !.compound = de_ret'.compound]>>
                   ELSE <<>>
    /\ de_pc' = IF ~de_ret'.ok THEN "failed" ELSE IF de_ret'.v.some THEN more ELSE "ended"

\* SeqAccess::next_element_seed
NextElementSeed ==
    /\ de_pc = "visit_seq"
    /\ de_ret' = next_element_seed(de_stack[1].compound, de_stack[1].visitor, de_src, de_index)
    /\ Requested("next_element_seed", "visit_seq")
    /\ UNCHANGED <<de_src, de_lit>>
    /\ UNCHANGED <<nloq_vars, acc_vars, codec_vars>>

\* MapAccess::next_key_seed
NextKeySeed ==
    /\ de_pc = "visit_map"
    /\ de_ret' = next_key_seed(de_stack[1].compound, de_stack[1].key, de_src, de_index)
    /\ Requested("next_key_seed", "next_value")
    /\ UNCHANGED <<de_src, de_lit>>
    /\ UNCHANGED <<nloq_vars, acc_vars, codec_vars>>

\* deserialize_enum with the derived visitor of ExampleEnum on a sentence
\* that starts with "the": VariantAccess::new keeps the cursor as
\* start_index, and variant_seed reads "the" and the name of the variant
DeVariantSeed ==
    /\ de_pc = "ready"
    /\ peek_next(de_src, de_index) = Ok(PToken(THE), de_index)
    /\ de_ret' = variant_seed("Identifier", FALSE, VARIANTS, de_src, de_index)
    /\ de_call' = Called("variant_seed", de_index, None)
    /\ de_index' = de_ret'.index
    /\ de_stack' = IF de_ret'.ok /\ de_ret'.v \in VARIANTS
                   THEN <<[fn |-> "visit_enum", visitor |-> "ExampleEnum",
                           index |-> de_index]>>
                   ELSE <<>>
    /\ de_pc' = IF de_ret'.ok /\ de_ret'.v \in VARIANTS THEN "variant" ELSE "failed"
    /\ UNCHANGED <<de_src, de_lit>>
    /\ UNCHANGED <<nloq_vars, acc_vars, codec_vars>>

\* the variant access restores the cursor to start_index and hands a
\* Compound to the visitor of the variant
VariantRolledBack(fn, access, compound) ==
    /\ de_call' = Called(fn, de_stack[1].index, Some(de_index))
    /\ de_index' = de_stack[1].index
    /\ de_stack' = <<Visiting(access, compound, de_stack[1].index, "Bool", "Identifier")>>
    /\ de_pc' = access
    /\ UNCHANGED <<de_src, de_lit, de_ret>>
    /\ UNCHANGED <<nloq_vars, acc_vars, codec_vars>>

\* VariantAccess::tuple_variant: rollback and deserialize_seq
DeTupleVariant ==
    /\ de_pc = "variant" /\ de_ret.v = VariantC
    /\ VariantRolledBack("tuple_variant", "visit_seq", DeCompound(None))

\* VariantAccess::struct_variant: rollback and deserialize_struct
DeStructVariant ==
    /\ de_pc = "variant" /\ de_ret.v = VariantB
    /\ VariantRolledBack("struct_variant", "visit_map", DeCompound(Some(FIELDS)))

\* VariantAccess::newtype_variant_seed and VariantAccess::unit_variant
DeScalarVariant ==
    /\ de_pc = "variant" /\ de_ret.v \in {VariantA, VariantU}
    /\ de_ret' = IF de_ret.v = VariantU THEN unit_variant(FALSE, de_index)
                 ELSE example_newtype_variant(de_src,
                                              expect(expect(de_ret, de_src, WHICH), de_src, IS))
    /\ de_call' = Called(IF de_ret.v = VariantU THEN "unit_variant"
                         ELSE "newtype_variant_seed", de_index, None)
    /\ de_index' = de_ret'.index
    /\ de_stack' = <<>>
    /\ de_pc' = IF de_ret'.ok THEN "ended" ELSE "failed"
    /\ UNCHANGED <<de_src, de_lit>>
    /\ UNCHANGED <<nloq_vars, acc_vars, codec_vars>>

CompoundNext ==
    \/ DeDeserializeSeq \/ DeDeserializeMap \/ DeserializeValue
    \/ NextElementSeed \/ NextKeySeed
    \/ DeVariantSeed \/ DeTupleVariant \/ DeStructVariant \/ DeScalarVariant

-----------------------------------------------------------------------------
(* Specifications: one component runs, the others stay as constructed *)

NloqIdle ==
    /\ nloq_src = <<>> /\ nloq_steps = <<>> /\ nloq_first = TRUE /\ nloq_index = 0
    /\ nloq_seen = <<>> /\ nloq_query = <<>> /\ nloq_pc = "idle"

\* a program about to convert an integer to a query
QueryInit ==
    /\ overflow_checks \in BOOLEAN
    /\ acc_lib = "json" /\ acc_doc = VNull /\ acc_call = NoCall
    /\ acc_ret = None /\ acc_before = VNull /\ acc_pc = "ready"

\* Query::from(index) for an isize
QueryFrom ==
    /\ acc_pc = "ready"
    /\ \E index \in IsizeMin..IsizeMax :
        /\ acc_call' = [fn |-> "query_from", index |-> index]
        /\ acc_ret' = query_from(index)
    /\ acc_pc' = "returned"
    /\ UNCHANGED <<overflow_checks, acc_lib, acc_doc, acc_before>>
    /\ UNCHANGED <<nloq_vars, de_vars, codec_vars>>

AccIdle ==
    /\ overflow_checks = FALSE /\ acc_lib = "json" /\ acc_doc = VNull /\ acc_call = NoCall
    /\ acc_ret = None /\ acc_before = VNull /\ acc_pc = "idle"

DeIdle ==
    /\ de_src = <<>> /\ de_index = 0 /\ de_lit = NoLiteral /\ de_stack = <<>> /\ de_call = NoCall
    /\ de_ret = None /\ de_pc = "idle"

CodecIdle ==
    /\ ser_value = VNull /\ ser_ret = NotWritten /\ from_ret = NotRead /\ codec_pc = "idle"

InitNloq == NloqInit /\ AccIdle /\ DeIdle /\ CodecIdle

InitAccess == AccInit /\ NloqIdle /\ DeIdle /\ CodecIdle

InitNum == NumInit /\ NloqIdle /\ AccIdle /\ CodecIdle

InitCodec == CodecInit /\ NloqIdle /\ AccIdle /\ DeIdle

InitKeys == KeysInit /\ NloqIdle /\ AccIdle /\ DeIdle

InitSentence == SentenceInit /\ NloqIdle /\ AccIdle /\ CodecIdle

InitQuery == QueryInit /\ NloqIdle /\ DeIdle /\ CodecIdle

InitText == TextInit /\ NloqIdle /\ AccIdle /\ CodecIdle

InitNames == NamesInit /\ NloqIdle /\ AccIdle /\ CodecIdle

InitHash == HashInit /\ NloqIdle /\ AccIdle /\ DeIdle

InitAny == AnyInit /\ NloqIdle /\ AccIdle /\ CodecIdle

InitCompound == CompoundInit /\ NloqIdle /\ AccIdle /\ CodecIdle

SpecNloq == InitNloq /\ [][NloqNextStep]_vars

SpecAccess == InitAccess /\ [][AccNext]_vars

SpecNum == InitNum /\ [][NumNext]_vars

SpecCodec == InitCodec /\ [][CodecNext]_vars

SpecKeys == InitKeys /\ [][CallToString]_vars

SpecSentence == InitSentence /\ [][SentenceNext]_vars

SpecQuery == InitQuery /\ [][QueryFrom]_vars

SpecText == InitText /\ [][TextNext]_vars

SpecNames == InitNames /\ [][NamesNext]_vars

SpecHash == InitHash /\ [][HashNext]_vars

SpecAny == InitAny /\ [][AnyNext]_vars

SpecCompound == InitCompound /\ [][CompoundNext]_vars

Init == InitNloq \/ InitAccess \/ InitNum \/ InitCodec \/ InitKeys \/ InitSentence \/ InitQuery
            \/ InitText \/ InitNames \/ InitHash \/ InitAny \/ InitCompound

Next == NloqNextStep \/ AccNext \/ NumNext \/ CodecNext \/ SentenceNext \/ QueryFrom \/ TextNext
            \/ NamesNext \/ HashNext \/ AnyNext \/ CompoundNext

Spec == Init /\ [][Next]_vars

-----------------------------------------------------------------------------
(* Claims about NLOQ *)

\* C3: query() returns the steps of the phrase last step first: for
\* "S1 of S2 of ... of Sk" the result is [Sk, ..., S1]; called after some
\* items were taken with next(), it returns the remaining steps reversed.
C3_QueryIsReversed ==
    nloq_pc = "queried" =>
        /\ nloq_seen = SubSeq(nloq_steps, 1, Len(nloq_seen))
        /\ nloq_query = Reverse(SubSeq(nloq_steps, Len(nloq_seen) + 1, Len(nloq_steps)))

C3_Witness ==
    /\ nloq_pc = "queried"
    /\ nloq_seen = <<>>
    /\ Len(nloq_steps) = 3
    /\ nloq_steps[1] # nloq_steps[3]
    /\ nloq_query = <<nloq_steps[3], nloq_steps[2], nloq_steps[1]>>

\* C4: for every ordinal n >= 1, written as a word (first .. twelfth) or as
\* digits not starting with 0 followed by st, nd, rd or th, the first item
\* of "the <ordinal> item" is Index{n-1, from_last = false}, of
\* "the <ordinal> to last item" is Index{n-1, from_last = true}, and of
\* "the last item" is Index{0, from_last = true}.
C4_OrdinalSteps ==
    (nloq_steps # <<>> /\ nloq_steps[1].q = "Index") =>
        /\ nloq_pc \in {"iterating", "ended", "exhausted"} => (nloq_seen # <<>> /\ nloq_seen[1] = nloq_steps[1])
        /\ (nloq_pc = "queried" /\ nloq_seen = <<>>) =>
               (nloq_query # <<>> /\ nloq_query[Len(nloq_query)] = nloq_steps[1])

C4_Witness ==
    /\ nloq_pc = "iterating"
    /\ nloq_src = <<Tok(THE), Tok(<<"1", "3", "r", "d">>), Tok(TO), Tok(LAST), Tok(ITEM)>>
    /\ nloq_seen = <<QIndex(12, TRUE)>>


-----------------------------------------------------------------------------
(* Claims about access and query_set *)

\* the last call was access_next or access_next_mut with one Index part
\* counted from the end, on an array
FromLastCall ==
    /\ acc_call.fn \in {"access", "access_next", "access_next_mut"}
    /\ Len(acc_call.queries) = 1
    /\ acc_call.queries[1].q = "Index"
    /\ acc_call.queries[1].from_last
    /\ acc_before.t = "Array"

\* C5: on an array of length L, access_next and access_next_mut with
\* Index{n, from_last = true} and n < L return the element at position
\* L - 1 - n, for nlsd_value::Value and for serde_json::Value.
C5_FromLastInRange ==
    (FromLastCall /\ acc_call.queries[1].index < Len(acc_before.a)) =>
        /\ acc_pc = "returned"
        /\ acc_ret = Some(acc_before.a[(Len(acc_before.a) - 1 - acc_call.queries[1].index) + 1])

C5_Witness ==
    /\ FromLastCall
    /\ acc_lib = "value"
    /\ acc_call.fn = "access_next_mut"
    /\ Len(acc_before.a) = 3
    /\ acc_call.queries[1].index = 2
    /\ acc_ret = Some(VNumber(NInt(11)))

\* C6 as the specification states it: on an nlsd_value::Value array of
\* length L (the empty array included), access_next and access_next_mut with
\* Index{n, from_last = true} and n >= L return None, and the computation
\* neither overflows nor aborts.
C6_FromLastOutOfRange ==
    (FromLastCall /\ acc_lib = "value" /\ acc_call.queries[1].index >= Len(acc_before.a)) =>
        /\ acc_pc = "returned"
        /\ acc_ret = None

\* C7: query_set_item with a forward index n on an array of length L:
\* n < L replaces element n and returns Replaced(old), the length and the
\* other elements unchanged; n = L appends and returns Set; n > L grows the
\* array to n + 1, fills L .. n-1 with Null, puts the value at n and
\* returns Set.
C7_ForwardIndexSet ==
    (/\ acc_call.fn = "query_set"
     /\ Len(acc_call.queries) = 1
     /\ acc_call.queries[1].q = "Index"
     /\ ~acc_call.queries[1].from_last
     /\ acc_before.t = "Array") =>
        LET n == acc_call.queries[1].index
            old == acc_before.a
            new == acc_doc.a
            L == Len(old)
        IN  /\ acc_doc.t = "Array"
            /\ new[n + 1] = acc_call.val
            /\ \A i \in 1..L : i # n + 1 => new[i] = old[i]
            /\ n < L => (acc_ret = Replaced(old[n + 1]) /\ Len(new) = L)
            /\ n = L => (acc_ret = Set /\ Len(new) = L + 1)
            /\ n > L => /\ acc_ret = Set
                        /\ Len(new) = n + 1
                        /\ \A i \in (L + 1)..n : new[i] = VNull

C7_Witness ==
    /\ acc_call.fn = "query_set"
    /\ acc_call.queries = <<QIndex(3, FALSE)>>
    /\ acc_call.val = VNumber(NInt(99))
    /\ acc_before = Numbers(1)
    /\ acc_doc = VArray(<<VNumber(NInt(11)), VNull, VNull, VNumber(NInt(99))>>)
    /\ acc_ret = Set

\* C8: whenever query_set returns NotSet, the value it was called on is
\* left exactly as it was.
C8_NotSetLeavesValue ==
    (acc_call.fn = "query_set" /\ acc_ret = NotSet) => acc_doc = acc_before

C8_Witness ==
    /\ acc_call.fn = "query_set"
    /\ acc_ret = NotSet
    /\ Len(acc_call.queries) = 2
    /\ acc_call.queries[2] = QIndex(MaxIdx, TRUE)
    /\ acc_before.t = "Array"
    /\ acc_before.a # <<>>
    /\ acc_before.a[1].t = "Array"
    /\ acc_call.queries[1] = QIndex(0, FALSE)


-----------------------------------------------------------------------------
(* Claims about numeric literals *)

\* the literal denotes an integer: it has no fraction, or only zeros
LitIntegerValued == \A i \in 1..Len(de_lit.frac) : de_lit.frac[i] = "0"

LitIsFloat == de_lit.point

\* the integer an integer-valued literal denotes
LitInteger == IF de_lit.neg THEN 0 - de_lit.whole ELSE de_lit.whole

LitInRange ==
    IF de_call.fn = "deserialize_signed"
    THEN de_call.bits \in SmallWidths =>
            (LitInteger >= 0 - Pow(2, de_call.bits - 1) /\ LitInteger <= Pow(2, de_call.bits - 1) - 1)
    ELSE de_call.bits \in SmallWidths => LitInteger <= Pow(2, de_call.bits) - 1

NumReturned == de_pc = "returned" /\ de_call.fn \in {"deserialize_signed", "deserialize_unsigned"}

\* C9 as the specification states it: an integer-valued float literal is
\* accepted as that integer; a float that is not integer-valued fails with
\* ExpectedInteger; every negative number decoded into an unsigned width
\* fails with ExpectedUnsigned.
C9_AsStated ==
    NumReturned =>
        /\ (LitIsFloat /\ LitIntegerValued /\ LitInRange
                /\ ~(de_call.fn = "deserialize_unsigned" /\ de_lit.neg))
              => (de_ret.ok /\ de_ret.v = LitInteger)
        /\ (LitIsFloat /\ ~LitIntegerValued /\ ~(de_call.fn = "deserialize_unsigned" /\ de_lit.neg))
              => (~de_ret.ok /\ de_ret.err = "ExpectedInteger")
        /\ (de_call.fn = "deserialize_unsigned" /\ de_lit.neg
                /\ (de_lit.whole > 0 \/ ~LitIntegerValued))
              => (~de_ret.ok /\ de_ret.err = "ExpectedUnsigned")

\* C9 amended: a float literal that is not integer-valued fails with
\* ExpectedInteger into every width, signed or unsigned, whatever its sign;
\* into an unsigned width a negative integer literal and an integer-valued
\* float literal with a minus sign (-0.0 included) fail with
\* ExpectedUnsigned; every other integer-valued float literal within the
\* range of the width is accepted as that integer.
C9_IntegerLiterals ==
    NumReturned =>
        /\ (LitIsFloat /\ ~LitIntegerValued)
              => (~de_ret.ok /\ de_ret.err = "ExpectedInteger")
        /\ (/\ de_call.fn = "deserialize_unsigned"
            /\ LitIntegerValued
            /\ de_lit.neg
            /\ (LitIsFloat \/ de_lit.whole > 0))
              => (~de_ret.ok /\ de_ret.err = "ExpectedUnsigned")
        /\ (/\ LitIsFloat
            /\ LitIntegerValued
            /\ LitInRange
            /\ (de_call.fn = "deserialize_unsigned" => ~de_lit.neg))
              => (de_ret.ok /\ de_ret.v = LitInteger)

C9_Witness ==
    /\ NumReturned
    /\ de_call.fn = "deserialize_unsigned"
    /\ de_lit = [neg |-> TRUE, whole |-> 1, point |-> TRUE, frac |-> <<"5">>]
    /\ de_ret.err = "ExpectedInteger"

-----------------------------------------------------------------------------
(* Claims about to_string and from_str *)

Written == codec_pc \in {"written", "read"}

Read == codec_pc = "read"

\* the sentence was read back as the value that was written
ReadBack == from_ret.ok /\ ValueEq(from_ret.v, ser_value)

\* C1: for every value of the domain of Value (null, bool, number, amount,
\* string, array, object with any key, custom) encoding succeeds, and
\* decoding the written sentence succeeds and yields a value equal to it.
C1_RoundTrip ==
    /\ Written => ser_ret.ok
    /\ Read => ReadBack

\* a finitely nested list of integers
RECURSIVE IsIntegerList(_)
IsIntegerList(v) ==
    /\ v.t = "Array"
    /\ \A i \in 1..Len(v.a) :
          IF v.a[i].t = "Number" THEN v.a[i].n.n = "Integer" ELSE IsIntegerList(v.a[i])

\* C2: for every finitely nested list of integers, with inner lists empty or
\* not and in any position, the serializer writes a sentence, and decoding
\* it reads the whole sentence and yields the same nested list, every entry
\* in the list it was serialized from.
C2_NestedLists ==
    IsIntegerList(ser_value) =>
        /\ Written => ser_ret.ok
        /\ Read => (ReadBack /\ from_ret.index = Len(ser_ret.v))

\* [[1, 2], [], [3]] was written with an "of" clause after the first inner
\* list was closed, and read back
C2_Witness ==
    /\ Read
    /\ ser_value = VArray(<<VArray(<<VNumber(NInt(1)), VNumber(NInt(2))>>), VArray(<<>>),
                            VArray(<<VNumber(NInt(3))>>)>>)
    /\ \E i \in 1..Len(ser_ret.v) : ser_ret.v[i] = Tok(OF)
    /\ ReadBack

\* the single string an amount of one entry is written as
AmountString(entry) ==
    <<Str(BackTick, NumberText(entry.val.n) \o <<" ">> \o entry.key)>>

\* the sentence starts with the tag of the amount variant
AmountTagged(sentence) ==
    \E i \in {2, 3} : i <= Len(sentence) /\ sentence[i] = Str(BackTick, AMOUNT_VARIANT_NAME)

\* C10: an amount of exactly one entry is written as the single back-tick
\* string "<number> <unit>" and an amount of any other number of entries
\* (zero, or two and more) in the tagged form named amount; both are read
\* back as the same amount.
C10_AmountRoundTrip ==
    ser_value.t = "Amount" =>
        /\ Written =>
              /\ ser_ret.ok
              /\ IF Len(ser_value.m) = 1 THEN ser_ret.v = AmountString(ser_value.m[1])
                 ELSE AmountTagged(ser_ret.v)
        /\ Read => ReadBack

-----------------------------------------------------------------------------
(* Claims about the scope clauses of the serializer *)

\* the value pushes a context of its own when it is serialized: a list or an
\* object with an entry, an amount written in the tagged form with a field
RECURSIVE OpensScope(_)
OpensScope(v) ==
    CASE v.t = "Array" -> v.a # <<>>
      [] v.t = "Object" -> v.o # <<>>
      [] v.t = "Amount" -> Len(v.m) >= 2
      [] v.t = "Custom" -> OpensScope(v.c)
      [] OTHER -> FALSE

\* the values a compound serializes as its entries, in order
RECURSIVE ChildValues(_)
ChildValues(v) ==
    CASE v.t = "Array" -> v.a
      [] v.t = "Object" -> [i \in 1..Len(v.o) |-> v.o[i].val]
      [] v.t = "Amount" -> IF Len(v.m) = 1 THEN <<>> ELSE [i \in 1..Len(v.m) |-> v.m[i].val]
      [] v.t = "Custom" -> ChildValues(v.c)
      [] OTHER -> <<>>

\* a child that opened a scope is followed by another entry of the compound
ScopeReturned(v) ==
    \E i \in 1..(Len(ChildValues(v)) - 1) : OpensScope(ChildValues(v)[i])

\* some child opened a scope
ScopeOpened(v) ==
    \E i \in 1..Len(ChildValues(v)) : OpensScope(ChildValues(v)[i])

RECURSIVE SumOver(_, _)
SumOver(Count(_), values) ==
    IF values = <<>> THEN 0 ELSE Count(Head(values)) + SumOver(Count, Tail(values))

\* the compounds of a value, itself included, with a child that opened a
\* scope and is followed by another entry
RECURSIVE ReturnedCount(_)
ReturnedCount(v) ==
    (IF ScopeReturned(v) THEN 1 ELSE 0) + SumOver(ReturnedCount, ChildValues(v))

\* the compounds of a value, itself included, with a child that opened a scope
RECURSIVE OpenedCount(_)
OpenedCount(v) ==
    (IF ScopeOpened(v) THEN 1 ELSE 0) + SumOver(OpenedCount, ChildValues(v))

\* the henceforth clauses of a sentence
Henceforths(sentence) ==
    Cardinality({i \in 1..Len(sentence) : sentence[i] = Tok(HENCEFORTH)})

\* the outermost compound declares its scope right after its name
DeclaresScope(sentence) == Len(sentence) >= 3 /\ sentence[3] = Tok(HENCEFORTH)

\* C11 as the specification states it: a finished compound is written with
\* "henceforth <current scope>" after its name if and only if at least one
\* of its children is a non-empty compound that introduced its own scope.
C11_AsStated ==
    (Written /\ ser_ret.ok) =>
        /\ DeclaresScope(ser_ret.v) <=> ScopeOpened(ser_value)
        /\ Henceforths(ser_ret.v) = OpenedCount(ser_value)

\* C11 amended: a finished compound is written with "henceforth <current
\* scope>" after its name if and only if at least one of its children is a
\* non-empty compound that introduced its own scope and is followed by
\* another entry of the compound; a compound whose only such child is its
\* last entry is written without the clause.
C11_Henceforth ==
    (Written /\ ser_ret.ok) =>
        /\ DeclaresScope(ser_ret.v) <=> ScopeReturned(ser_value)
        /\ Henceforths(ser_ret.v) = ReturnedCount(ser_value)

\* [[1], 2] is written with the clause; the inner list was followed by 2
C11_Witness ==
    /\ Written
    /\ ser_value = VArray(<<VArray(<<VNumber(NInt(1))>>), VNumber(NInt(2))>>)
    /\ ser_ret.ok
    /\ DeclaresScope(ser_ret.v)
    /\ Henceforths(ser_ret.v) = 1

-----------------------------------------------------------------------------
(* Claims about map keys *)

\* the sentence the key of the only entry of a map serializes to
KeyWritten == key_serialize(Serializer(<<>>, <<>>), ser_value.o[1].key)

\* a sentence that is one back-tick-delimited string
IsTickString(sentence) ==
    Len(sentence) = 1 /\ sentence[1].k = "s" /\ sentence[1].d = BackTick

\* C12: serializing a map entry whose key does not serialize to a
\* back-tick-delimited string (a bool, a number, the unit, a compound) fails
\* with UnexpectedKeyType, and a key that serializes to a
\* back-tick-delimited string is accepted.
C12_KeyType ==
    (Written /\ ser_value.t = "Object" /\ Len(ser_value.o) = 1) =>
        IF KeyWritten.err = "" /\ IsTickString(KeyWritten.writer)
        THEN ser_ret.ok
        ELSE ~ser_ret.ok /\ ser_ret.err = "UnexpectedKeyType"

\* a map with the key true was refused
C12_Witness ==
    /\ Written
    /\ ser_value = VObject(<<Entry(KBool(TRUE), VNull)>>)
    /\ ~ser_ret.ok
    /\ ser_ret.err = "UnexpectedKeyType"

-----------------------------------------------------------------------------
(* Claims about custom values *)

\* the sentence of the payload of a custom value written on its own
PayloadWritten == to_string(ser_value.c)

\* the newtype-variant form of a payload sentence
CustomTagged(payload) ==
    <<Tok(THE), Str(BackTick, CUSTOM_VARIANT_NAME), Tok(WHICH), Tok(IS)>> \o payload

\* C14: a custom value is written in the newtype-variant form: "the",
\* the synthetic tag `non standard object`, "which is", then the sentence
\* of the inner value.
C14_CustomTagged ==
    (Written /\ ser_value.t = "Custom") =>
        (ser_ret.ok /\ PayloadWritten.ok /\ ser_ret.v = CustomTagged(PayloadWritten.v))

-----------------------------------------------------------------------------
(* Claims about sentences decoded by from_str *)

\* the token at a position of a sentence, or an empty token past its end
TokenAt(src, i) == IF i >= 1 /\ i <= Len(src) THEN src[i] ELSE Tok(<<>>)

\* the alias the compound that starts at position p declares, if any
DeclaredAt(src, p) ==
    IF TokenAt(src, p + 2) = Tok(HENCEFORTH) THEN Some(TokenAt(src, p + 3).c) ELSE None

\* the position of "where" of the compound that starts at position p
WhereAt(src, p) == IF TokenAt(src, p + 2) = Tok(HENCEFORTH) THEN p + 4 ELSE p + 2

\* the position of the "of" of the first entry of the compound that starts
\* at position p: after "an item", or after the key
FirstOfAt(src, p) ==
    LET w == WhereAt(src, p)
    IN  IF TokenAt(src, p + 1) = Tok(LIST) THEN w + 3
        ELSE IF TokenAt(src, w + 1) = Tok(THE) THEN w + 3 ELSE w + 2

\* a list or an object starts at position p, and its first entry carries
\* "of <alias>" with an alias that the compound did not declare
MisScopedAt(src, p) ==
    /\ TokenAt(src, p) = Tok(THE)
    /\ TokenAt(src, p + 1) \in {Tok(LIST), Tok(OBJECT)}
    /\ TokenAt(src, WhereAt(src, p)) = Tok(WHERE)
    /\ TokenAt(src, p + 1) = Tok(LIST) =>
          (TokenAt(src, WhereAt(src, p) + 1) = Tok(AN)
              /\ TokenAt(src, WhereAt(src, p) + 2) = Tok(ITEM))
    /\ TokenAt(src, FirstOfAt(src, p)) = Tok(OF)
    /\ DeclaredAt(src, p) # Some(TokenAt(src, FirstOfAt(src, p) + 1).c)

FromStrReturned == de_pc = "returned" /\ de_call.fn = "from_str"

\* C13: when the first entry of a list or of an object carries "of <alias>"
\* and the alias is not the one the compound declared with henceforth, or
\* the compound declared none, decoding fails with ShouldBeDeclaredEmpty.
C13_ShouldBeDeclaredEmpty ==
    (FromStrReturned /\ \E p \in 1..Len(de_src) : MisScopedAt(de_src, p)) =>
        (~de_ret.ok /\ de_ret.err = "ShouldBeDeclaredEmpty")

\* "the list henceforth `a` where an item of `b` is 1" was refused
C13_Witness ==
    /\ FromStrReturned
    /\ de_src = CompoundHead(LIST, Some(KeyA)) \o ListEntry(TRUE, Some(KeyB), One)
    /\ MisScopedAt(de_src, 1)
    /\ de_ret.err = "ShouldBeDeclaredEmpty"

-----------------------------------------------------------------------------
(* Claims about sentences decoded into a derived enum *)

EnumReturned == de_pc = "returned" /\ de_call.fn = "from_str_enum"

\* the variant of ExampleEnum a name stands for: the name as declared, or
\* its humanized form
Named(name) ==
    IF name \in VARIANTS THEN Some(name)
    ELSE IF Len(name) = 1 /\ <<ToUppercase(name[1])>> \in VARIANTS
    THEN Some(<<ToUppercase(name[1])>>)
    ELSE None

\* the value a payload sentence stands for
PayloadValue(val) == from_str(val).v

EnumDecoded(variant, payload) == de_ret.ok /\ de_ret.v = VEnum(variant, payload)

EnumRefused == ~de_ret.ok /\ de_ret.err = "ExpectedUnitVariant"

\* C15: decoding into an enum, "the <STRING> which is <value>" yields the
\* newtype variant named by the string with that payload, "the <STRING>
\* where an item is ..." the tuple variant, "the <STRING> where the <field>
\* is ..." the struct variant and a bare <STRING> the unit variant; a bare
\* string that names a variant with a payload, and a sentence starting with
\* "the" that names the unit variant, fail with ExpectedUnitVariant.
C15_EnumForms ==
    EnumReturned =>
        \A name \in VariantNames :
            /\ \A val \in BoolTexts :
                  (de_src = NewtypeForm(name, val) /\ Named(name) = Some(VariantA)) =>
                      EnumDecoded(VariantA, PayloadValue(val))
            /\ \A first \in BoolTexts, second \in BoolTexts :
                  (de_src = TupleForm(name, <<first, second>>) /\ Named(name) = Some(VariantC)) =>
                      EnumDecoded(VariantC, <<PayloadValue(first), PayloadValue(second)>>)
            /\ \A the \in BOOLEAN, fields \in {<<KeyA, KeyB>>, <<KeyB, KeyA>>}, val \in BoolTexts :
                  (de_src = StructForm(name, the, fields, <<val, val>>)
                        /\ Named(name) = Some(VariantB)) =>
                      EnumDecoded(VariantB, <<Entry(KeyA, PayloadValue(val)),
                                              Entry(KeyB, PayloadValue(val))>>)
            /\ (de_src = UnitForm(name) /\ Named(name) = Some(VariantU)) =>
                  EnumDecoded(VariantU, VNull)
            /\ (de_src = UnitForm(name) /\ Named(name).some /\ Named(name) # Some(VariantU)) =>
                  EnumRefused
            /\ (Len(de_src) >= 2 /\ de_src[1] = Tok(THE) /\ de_src[2] = Tick(name)
                    /\ Named(name) = Some(VariantU)) =>
                  EnumRefused

\* "the `c` where an item is true and another item is off" was read as
\* C(true, false)
C15_Witness ==
    /\ EnumReturned
    /\ de_src = TupleForm(<<"c">>, <<<<Tok(<<"t", "r", "u", "e">>)>>, <<Tok(<<"o", "f", "f">>)>>>>)
    /\ EnumDecoded(VariantC, <<VBool(TRUE), VBool(FALSE)>>)

-----------------------------------------------------------------------------
(* Claims about ordinals with a leading 0 and about the rest of a phrase *)

\* the phrase is "the <ordinal> item" or "the <ordinal> to last item" around
\* an ordinal with a leading 0, possibly followed by more words
ZeroPhrase ==
    /\ Len(nloq_src) >= 3
    /\ nloq_src[1] = Tok(THE)
    /\ nloq_src[2].k = "t" /\ nloq_src[2].c \in ZeroOrdinals
    /\ nloq_src[3] \in {Tok(ITEM), Tok(TO)}

\* C16 as stated: for "the 0th item" and "the 01st item" the parser yields
\* no query step, neither an Index nor a Key, so the query is empty.
C16_AsStated == (nloq_pc = "queried" /\ ZeroPhrase) => (nloq_seen = <<>> /\ nloq_query = <<>>)

\* C16: for "the 0th item" and "the 01st item" the parser yields no Index
\* step: parse_index rejects the ordinal, and the word is read as the key of
\* that name, with "item" left unread.
C16_ZeroOrdinalIsKey ==
    (nloq_pc = "queried" /\ ZeroPhrase) =>
        /\ parse_index(nloq_src[2].c) = 0
        /\ nloq_seen \o nloq_query = <<QKey(nloq_src[2].c)>>
        /\ NloqRest(nloq_src, nloq_index) = SubSeq(nloq_src, 3, Len(nloq_src))

\* "the 01st item" was read as the key 01st
C16_Witness ==
    /\ nloq_pc = "queried"
    /\ nloq_src = <<Tok(THE), Tok(<<"0", "1", "s", "t">>), Tok(ITEM)>>
    /\ nloq_query = <<QKey(<<"0", "1", "s", "t">>)>>

\* next() has returned None, or query() has returned
NloqStopped == nloq_pc \in {"ended", "exhausted", "queried"}

\* C17: when a step fails to match, next() returns None with the cursor
\* back where it was at the start of the call, so rest() is the part of the
\* phrase that follows the last matched step.
C17_RestIsSuffix ==
    NloqStopped =>
        \A chain \in NloqChains, tail \in NloqTails :
            nloq_src = ChainText(chain) \o tail => NloqRest(nloq_src, nloq_index) = tail

\* "the last item of the name of the" stopped with "of the" left unread
C17_Witness ==
    /\ nloq_pc = "ended"
    /\ nloq_src = ChainText(<<StepLast, StepIdent(<<"n", "a", "m", "e">>)>>) \o <<Tok(OF), Tok(THE)>>
    /\ Len(nloq_seen) = 2
    /\ NloqRest(nloq_src, nloq_index) = <<Tok(OF), Tok(THE)>>

-----------------------------------------------------------------------------
(* Claims about the conversion of an integer to a query *)

QueryFromReturned == acc_pc = "returned" /\ acc_call.fn = "query_from"

\* Index{n, false} for n >= 0 and Index{|n| - 1, true} for n < 0
SignedIndex(n) == IF n >= 0 THEN QIndex(n, FALSE) ELSE QIndex((0 - n) - 1, TRUE)

-----------------------------------------------------------------------------
(* Claims about the offsets of parse errors and about string literals *)

TextReturned ==
    de_pc = "returned" /\ de_call.fn \in {"parse_string", "parse_number", "deserialize_string"}

\* the offset in the whole input of the first character that is not
\* whitespace, from the cursor of the call on
Opening == FindFrom(de_src, de_call.index, FALSE)

\* the offset in the whole input of the delimiter that closes the literal
\* opened at Opening: the first one after it that no backslash precedes (the
\* end of the input if there is none)
Closing ==
    LET closers == {q \in (Opening + 1)..(Len(de_src) - 1) :
                        /\ de_src[q + 1] = de_src[Opening + 1]
                        /\ de_src[q] # BackSlash}
    IN  IF closers = {} THEN Len(de_src)
        ELSE CHOOSE q \in closers : \A p \in closers : q <= p

\* the offset in the whole input of the character an error is about
Offending(err) == IF err = "ExpectedWhitespace" THEN Closing + 1 ELSE Opening

\* C19 as stated: every InvalidString(n), InvalidNumber(n) or
\* ExpectedWhitespace(n) the decoder reports carries the offset n of the
\* offending character from the start of the original input, whatever
\* precedes it (consumed fragments, leading whitespace).
C19_OffsetFromStart ==
    (TextReturned /\ ~de_ret.ok /\ de_ret.err \in IndexedErrors) =>
        de_ret.at = Offending(de_ret.err)

\* the content with every backslash followed by the delimiter replaced by
\* the delimiter
RECURSIVE Unescaped(_, _)
Unescaped(string, delimiter) ==
    IF Len(string) >= 2 /\ string[1] = BackSlash /\ string[2] = delimiter
    THEN <<delimiter>> \o Unescaped(SubSeq(string, 3, Len(string)), delimiter)
    ELSE IF string = <<>> THEN <<>>
    ELSE <<Head(string)>> \o Unescaped(Tail(string), delimiter)

\* C20 as stated: decoding a delimited string literal returns its content
\* with every backslash followed by the literal's own opening delimiter
\* (back-tick, double quote or apostrophe) replaced by that delimiter, and
\* nothing else changed.
C20_OwnDelimiterUnescaped ==
    (de_pc = "returned" /\ de_call.fn = "deserialize_string" /\ de_ret.ok) =>
        de_ret.v = Unescaped(Slice(de_src, Opening + 1, Closing), de_src[Opening + 1])


-----------------------------------------------------------------------------
(* Claims about integer literals decoded into narrower widths *)

NarrowWidths == {8, 16, 32}

\* the literal is an integer literal and the width is narrower than 64 bits
NarrowIntegerCall == NumReturned /\ ~LitIsFloat /\ de_call.bits \in NarrowWidths

\* n reduced modulo 2^bits, read as two's complement for a signed width
Truncated(n, bits, signed) ==
    IF bits \notin SmallWidths THEN n
    ELSE LET low == n % Pow(2, bits)
         IN  IF signed /\ low >= Pow(2, bits - 1) THEN low - Pow(2, bits) ELSE low

\* C30 as stated: decoding an integer literal n into a narrower width never
\* fails for being out of range: the visitor receives n reduced modulo
\* 2^width.
C30_AsStated ==
    (NarrowIntegerCall /\ de_call.bits \in SmallWidths) =>
        /\ de_ret.ok
        /\ de_ret.v = Truncated(LitInteger, de_call.bits, de_call.fn = "deserialize_signed")

\* C30: an integer literal n decoded into i8, i16 or i32 is handed to the
\* visitor reduced modulo 2^width (two's complement); decoded into u8, u16
\* or u32 it is handed over reduced modulo 2^width when n >= 0, and the call
\* fails with ExpectedUnsigned when n < 0.
C30_Narrowing ==
    NarrowIntegerCall =>
        IF de_call.fn = "deserialize_unsigned" /\ LitInteger < 0
        THEN ~de_ret.ok /\ de_ret.err = "ExpectedUnsigned"
        ELSE /\ de_ret.ok
             /\ de_ret.v = Truncated(LitInteger, de_call.bits, de_call.fn = "deserialize_signed")

\* 32768 decoded as i16 gave -32768
C30_Witness ==
    /\ NarrowIntegerCall
    /\ de_call = [fn |-> "deserialize_signed", bits |-> 16]
    /\ de_lit = [neg |-> FALSE, whole |-> 32768, point |-> FALSE, frac |-> <<>>]
    /\ de_ret.ok /\ de_ret.v = 0 - 32768


-----------------------------------------------------------------------------
(* Claims about names written and read back *)

NameReturned == de_pc = "returned" /\ de_call.fn = "dehumanize_match"

\* C21 as stated: for every identifier id in snake_case, camelCase or
\* UpperCamelCase (acronym runs included), dehumanize_match(humanize(id),
\* candidates) returns id whenever id is among the candidates.
C21_NamesRoundTrip == NameReturned => de_ret = Some(de_src[1].c)


-----------------------------------------------------------------------------
(* Claims about the content of a string literal *)

ParseStringOk == de_pc = "returned" /\ de_call.fn = "parse_string" /\ de_ret.ok

\* every delimiter in the content has a backslash just before it
DelimitersEscaped(content, delimiter) ==
    \A i \in 1..Len(content) :
        content[i] = delimiter => (i > 1 /\ content[i - 1] = BackSlash)

\* C22: whenever parse_string succeeds, the content holds no delimiter of
\* the literal that is not immediately preceded by a backslash, and the
\* literal ends at the first delimiter that no backslash precedes.
C22_ContentEndsAtDelimiter ==
    ParseStringOk =>
        /\ DelimitersEscaped(de_ret.v, de_src[Opening + 1])
        /\ de_ret.v = Slice(de_src, Opening + 1, Closing)

\* a literal whose content is an escaped back-tick was parsed
C22_Witness ==
    /\ ParseStringOk
    /\ de_src = <<BackTick, BackSlash, BackTick, BackTick>>
    /\ de_ret.v = <<BackSlash, BackTick>>


-----------------------------------------------------------------------------
(* Claims about the hash of a number *)

Hashed == codec_pc = "hashed"

\* C29 as stated: for any two Numbers a and b with a == b (in particular
\* Integer(n) and Float(n.0)) the same is written to the hasher, so that
\* hash(a) = hash(b).
C29_HashConsistent == (Hashed /\ from_ret.eq) => ser_ret.written[1] = ser_ret.written[2]


-----------------------------------------------------------------------------
(* Claims about the progress of the NLOQ iterator *)

\* the step is a call of next() that returned a step of the query
NextReturnedSome == nloq_pc' # "queried" /\ Len(nloq_seen') > Len(nloq_seen)

\* next() has returned None before
NextHadEnded == nloq_pc \in {"ended", "exhausted"}

\* C28: every call of next() that returns a step leaves the cursor strictly
\* beyond its offset at the start of the call, and once next() has returned
\* None every later call returns None; query() returns, with no more steps
\* than tokens were consumed.
C28_NextAdvances ==
    [][/\ NextReturnedSome => nloq_index' > nloq_index
       /\ NextHadEnded => (nloq_pc' = "exhausted" /\ nloq_seen' = nloq_seen)
       /\ nloq_pc' = "queried" => Len(nloq_query') <= nloq_index' - nloq_index]_vars

\* next() returned a key, then None on a step that names a number, and None
\* again although a well-formed step follows the number
C28_Witness ==
    /\ nloq_pc = "exhausted"
    /\ nloq_src = <<Tok(THE), Tok(<<"n", "a", "m", "e">>), Tok(OF), Tok(THE), Tok(<<"5">>),
                    Tok(OF), Tok(THE), Tok(<<"n", "a", "m", "e">>)>>
    /\ nloq_seen = <<QKey(<<"n", "a", "m", "e">>)>>
    /\ nloq_index = 2

-----------------------------------------------------------------------------
(* Claims about the termination of the decoder *)

\* two calls of deserialize_any wait at once, entered with the same visitor
\* at the same cursor
Reentered ==
    \E i \in 1..Len(de_stack) : \E j \in (i + 1)..Len(de_stack) :
        /\ de_stack[i].fn = "deserialize_any" /\ de_stack[j].fn = "deserialize_any"
        /\ de_stack[i].visitor = de_stack[j].visitor
        /\ de_stack[i].index = de_stack[j].index

\* C27 as stated: decoding a sentence into a Value ends with a value or an
\* error; on `the <STRING> which is <value>` deserialize_any is never
\* entered again at the same cursor with the same visitor.
C27_NoReentry == ~Reentered

-----------------------------------------------------------------------------
(* Claims about the "of" clauses of the serializer *)

\* the sentence a value is written as on its own
SentenceOf(v) == to_string(v).v

\* the position of the first "is" of a sentence after a position
RECURSIVE IsAfter(_, _)
IsAfter(sentence, p) ==
    IF p >= Len(sentence) \/ sentence[p + 1] = Tok(IS) THEN p + 1
    ELSE IsAfter(sentence, p + 1)

RECURSIVE CompoundScoped(_, _)
RECURSIVE EntriesScoped(_, _, _, _, _)

\* the entry k of a compound, whose "is" is at the position q: it carries
\* "of" and the alias the compound declared exactly after a sibling that
\* opened a scope; the same of the compounds inside it and of the entries
\* after it
EntryScoped(sentence, q, children, k, alias) ==
    /\ (TokenAt(sentence, q - 2) = Tok(OF)) <=> (k > 1 /\ OpensScope(children[k - 1]))
    /\ TokenAt(sentence, q - 2) = Tok(OF) =>
            (alias.some /\ TokenAt(sentence, q - 1) = alias.v)
    /\ CompoundScoped(children[k],
                      SubSeq(sentence, q + 1, q + Len(SentenceOf(children[k]))))
    /\ EntriesScoped(sentence, q + Len(SentenceOf(children[k])), children, k + 1, alias)

\* the entries from the k-th on of a compound, p tokens of whose sentence
\* are read
EntriesScoped(sentence, p, children, k, alias) ==
    k > Len(children) \/ EntryScoped(sentence, IsAfter(sentence, p), children, k, alias)

\* the sentence of a value: every entry of every compound in it
CompoundScoped(v, sentence) ==
    ChildValues(v) = <<>>
        \/ EntriesScoped(sentence, 2, ChildValues(v), 1,
                         IF TokenAt(sentence, 3) = Tok(HENCEFORTH) THEN Some(sentence[4])
                         ELSE None)

\* C24: in the written sentence an entry carries "of <alias>" before its
\* "is" if and only if the sibling written just before it in the same
\* compound was a non-empty compound, and the alias is the one the
\* enclosing compound declares with "henceforth"; an empty compound before
\* the entry does not bring the clause.
C24_OfAfterCompound == (Written /\ ser_ret.ok) => CompoundScoped(ser_value, ser_ret.v)

\* [[1, 2], [], [3]]: the empty list follows a list with items and carries
\* the clause with the declared alias, the list after it carries none
C24_Witness ==
    /\ Written /\ ser_ret.ok
    /\ ser_value = VArray(<<VArray(<<VNumber(NInt(1)), VNumber(NInt(2))>>), VArray(<<>>),
                            VArray(<<VNumber(NInt(3))>>)>>)
    /\ SubSeq(ser_ret.v, 1, 3) = <<Tok(THE), Tok(LIST), Tok(HENCEFORTH)>>
    /\ SubSeq(ser_ret.v, 21, 28)
            = <<Tok(AND), Tok(ANOTHER), Tok(ITEM), Tok(OF), ser_ret.v[4], Tok(IS),
                Tok(THE), Tok(EMPTY)>>
    /\ SubSeq(ser_ret.v, 30, 33) = <<Tok(AND), Tok(ANOTHER), Tok(ITEM), Tok(IS)>>

-----------------------------------------------------------------------------
(* Claims about the kind of a compound *)

\* the sentence declares its compound empty
DeclaredEmpty(src) == TokenAt(src, 2) = Tok(EMPTY)

\* the name of the compound of a sentence
NameOf(src) == IF DeclaredEmpty(src) THEN TokenAt(src, 3) ELSE TokenAt(src, 2)

\* the first token of the first entry
FirstOf(src) == TokenAt(src, WhereAt(src, 1) + 1)

\* a first entry starts with "an", with "the", with a primitive keyword,
\* with a string or with a number
StartsEntry(tok) ==
    \/ tok.k = "s"
    \/ IsNumberText(tok.c)
    \/ tok.c \in {AN, THE, EMPTY, NOTHING} \cup TrueWords \cup FalseWords

\* the sentence is a compound: "the empty <NAME>", or "the <NAME>", an alias
\* or none, "where" and a first entry
IsCompound(src) ==
    /\ TokenAt(src, 1) = Tok(THE)
    /\ NameOf(src).k = "s" \/ NameOf(src) \in {Tok(LIST), Tok(OBJECT)}
    /\ \/ DeclaredEmpty(src)
       \/ /\ TokenAt(src, WhereAt(src, 1)) = Tok(WHERE)
          /\ WhereAt(src, 1) = 5 => TokenAt(src, 4).k = "s"
          /\ WhereAt(src, 1) < Len(src)
          /\ StartsEntry(FirstOf(src))

\* the kind the name and the first entry give to the compound
KindOf(src) ==
    IF NameOf(src) = Tok(LIST) THEN "List"
    ELSE IF NameOf(src) = Tok(OBJECT) THEN "Object"
    ELSE IF FirstOf(src) = Tok(AN) THEN "List" ELSE "Object"

\* the first request to a Compound that is not described yet has returned
FirstRequest(fn) == de_call.fn = fn /\ de_call.index = 0 /\ IsCompound(de_src)

\* the request found the compound to be of the kind and went on to the
\* entry, which it read unless the entry is not one of that kind
Entered(kind) ==
    /\ ~de_ret.ok =>
            de_ret.err \notin {"ExpectedListItem", "ExpectedObjectEntry", "ExpectedObjectDescriptor"}
    /\ de_ret.ok => (de_ret.v.some /\ de_stack[1].compound.kind = kind)

\* the request failed with the error
Failed(err) == ~de_ret.ok /\ de_ret.err = err

\* the request returned the end of the compound at once
NoEntries == de_ret.ok /\ ~de_ret.v.some /\ ~("rolled" \in DOMAIN de_ret)

-----------------------------------------------------------------------------
(* Claims about entries that name the scope of another compound *)

\* the alias named by the list entry "and another item of <alias>" that
\* starts at the cursor, if there is one
ItemOf(src, i) ==
    IF /\ TokenAt(src, i + 1) = Tok(AND) /\ TokenAt(src, i + 2) = Tok(ANOTHER)
       /\ TokenAt(src, i + 3) = Tok(ITEM) /\ TokenAt(src, i + 4) = Tok(OF)
       /\ TokenAt(src, i + 5).k = "s"
    THEN Some(TokenAt(src, i + 5).c)
    ELSE None

\* the position of the key of the object entry that starts at the cursor
KeyAt(src, i) == IF TokenAt(src, i + 2) = Tok(THE) THEN i + 3 ELSE i + 2

\* the alias named by the object entry "and [the] <key> of <alias>" that
\* starts at the cursor, if there is one
KeyOf(src, i) ==
    IF /\ TokenAt(src, i + 1) = Tok(AND) /\ TokenAt(src, KeyAt(src, i)).k = "s"
       /\ TokenAt(src, KeyAt(src, i) + 1) = Tok(OF)
       /\ TokenAt(src, KeyAt(src, i) + 2).k = "s"
    THEN Some(TokenAt(src, KeyAt(src, i) + 2).c)
    ELSE None

\* the alias named by the entry at the cursor, in the form of the entries of
\* the compound the visitor holds
EntryOf == IF de_pc = "visit_seq" THEN ItemOf(de_src, de_index) ELSE KeyOf(de_src, de_index)

\* the visitor is about to ask for an entry that is not the first
AsksForMore == de_pc \in {"visit_seq", "visit_map"} /\ ~de_stack[1].compound.first

\* a value that is a compound has just been read as an entry of the
\* compound the visitor holds, and the sentence goes on
CompoundReadInside ==
    /\ de_pc' \in {"visit_seq", "visit_map"}
    /\ de_call'.fn \in {"next_element_seed", "next_value_seed"}
    /\ de_ret'.ok
    /\ (IF de_call'.fn = "next_element_seed" THEN de_ret'.v.v ELSE de_ret'.v).t
            \in {"Array", "Object"}
    /\ de_index' < Len(de_src)

\* C23: when an entry that is not the first carries "of <alias>" and the
\* alias is not the one this compound declared, next_element_seed and
\* next_key_seed return the end of the compound with the cursor where it was
\* before the "and" of the entry; a compound read inside another thus leaves
\* the cursor before that entry, and the enclosing compound, whose alias the
\* entry names, reads it as its next entry.
C23_ForeignEntryEnds ==
    [][/\ (AsksForMore /\ EntryOf.some /\ EntryOf # de_stack[1].compound.scope) =>
              /\ de_ret'.ok /\ ~de_ret'.v.some /\ de_pc' = "ended"
              /\ de_index' = de_index
       /\ CompoundReadInside =>
              \/ ItemOf(de_src, de_index').some
              \/ KeyOf(de_src, de_index').some
       /\ (AsksForMore /\ EntryOf.some /\ EntryOf = de_stack[1].compound.scope) =>
              /\ de_ret'.ok /\ de_ret'.v.some
              /\ de_index' = (IF de_pc = "visit_seq" THEN de_index + 7
                              ELSE KeyAt(de_src, de_index) + 3)]_vars

\* "the list henceforth `a` where an item is the list where an item is 1
\* and another item of `a` is 2": the inner list ended before the "and", at
\* 15 tokens, and the outer list read the entry from there
C23_Witness ==
    /\ de_src = HeadOf(Tok(LIST), FALSE, Some(KeyA)) \o ListEntry(TRUE, None, InnerList)
                    \o ListEntry(FALSE, Some(KeyA), Two)
    /\ de_call.fn = "next_element_seed" /\ de_call.index = 15
    /\ de_ret.ok /\ de_ret.v = Some(VNumber(NInt(2)))
    /\ de_index = 22

-----------------------------------------------------------------------------
(* Claims about the distance of a rollback *)

\* the last call restored the cursor
RolledBackBy(fns) ==
    /\ "rolled" \in DOMAIN de_call
    /\ de_call.rolled.some
    /\ de_call.fn \in fns

\* the tokens between the restored offset and the cursor before the rollback
Distance == de_call.rolled.v - de_call.restored

RollingCalls ==
    {"deserialize_any", "tuple_variant", "struct_variant", "next_element_seed", "next_key_seed"}

\* C26 as stated: whenever the decoder restores its cursor (to find the
\* shape of a variant, to tell a compound named by a string, at an entry of
\* another scope) at most 2 tokens lie between the restored offset and the
\* cursor before the rollback.
C26_AsStated == RolledBackBy(RollingCalls) => Distance <= 2

\* C26 amended: whenever the decoder restores its cursor, at most 5 tokens
\* lie between the restored offset and the cursor before the rollback: 2
\* after the name of a tuple or struct variant, 3 in deserialize_any after
\* "the" and a string and 2 after "the" and a keyword, 5 at a list entry of
\* another scope and 4 or 5 at an object entry of another scope.
C26_RollbackBounded ==
    /\ RolledBackBy(RollingCalls) => (Distance >= 2 /\ Distance <= 5)
    /\ RolledBackBy({"tuple_variant", "struct_variant"}) => Distance = 2
    /\ RolledBackBy({"deserialize_any"}) =>
            Distance = (IF TokenAt(de_src, de_call.index + 2).k = "s" THEN 3 ELSE 2)
    /\ RolledBackBy({"next_element_seed"}) => Distance = 5
    /\ RolledBackBy({"next_key_seed"}) =>
            Distance = (IF TokenAt(de_src, de_call.index + 2) = Tok(THE) THEN 5 ELSE 4)

\* "the list where an item is 1 and another item of `a` is 2": the second
\* entry names a scope the list did not declare, and the cursor went back
\* over "and another item of `a`"
C26_Witness ==
    /\ de_src = HeadOf(Tok(LIST), FALSE, None) \o ListEntry(TRUE, None, One)
                    \o ListEntry(FALSE, Some(KeyA), Two)
    /\ RolledBackBy({"next_element_seed"})
    /\ de_call.restored = 7 /\ de_call.rolled = Some(12)
    /\ de_index = 7


=============================================================================
